---------------------------- MODULE Spec2Model ----------------------------
(***************************************************************************)
(* Finit service supervisor: the per-service state machine of              *)
(* src/src/service.c (service_start/stop/kill/restart/retry/monitor/step), *)
(* the service timer slot, the processes the supervisor forks and signals, *)
(* and the reload/runlevel sequencing that drives service_step_all().      *)
(*                                                                         *)
(* Every handler of the event loop (a collected child, an expired timer,   *)
(* the deferred worker, a condition change, a reload, a runlevel change)   *)
(* is one atomic action: callbacks run to completion, never concurrently.  *)
(* A handler is computed by threading a "world" record w through the       *)
(* operators that model the C functions; the action then commits w.        *)
(***************************************************************************)
EXTENDS Integers, Sequences, FiniteSets, TLC

VARIABLES
    svc,        \* registry: service id -> svc_t record
    procs,      \* live child processes: pid -> [owner, stopped, term, kill]
    nextpid,    \* kernel: where the cyclic pid allocation continues
    pid_max,    \* kernel: pids are allocated in 2..pid_max
    cond,       \* condition aggregate of each service's condition list
    runlevel,   \* active runlevel
    sm,         \* reload/runlevel sequencer: [state, newlevel, reload, in_teardown]
    work,       \* the deferred work item (schedule_work) is pending
    ev,         \* what the last handler did: sequence of <<service, event, pid>>
    diverged,   \* a handler's re-entry loop did not settle within MaxSteps
    tr,         \* the state changes of the last handler, in order, each with
                \* what held when svc_set_state was called
    test,       \* a test driver's notes: [n, oldpid, cls], its stimuli so far,
                \* the pid each service had before them, the files it touched
    conddir,    \* the condition files under _PATH_COND: path -> "on" | "flux";
                \* a condition without a file is off
    nl_defidx   \* netlink plugin: interface index of the default route, or 0

vars == <<svc, procs, nextpid, pid_max, cond, runlevel, sm, work, ev, diverged, tr, test,
          conddir, nl_defidx>>

-----------------------------------------------------------------------------
(* Bounds of the model *)

\* pid_max where the whole supervisor is explored
MaxPid == 3

\* pid_max where a test's scenario is explored: no pid is used twice
MaxPidTest == 14

\* kills the test of the respawn lands
MaxKills == 11

\* reloads the test of the reload issues
MaxReloads == 4

\* iterations of service_step's "goto restart" loop before it is declared diverged
MaxSteps == 12

\* cap of restart_cnt, which the code increments without a ceiling, where
\* the whole supervisor is explored
MaxCnt == 1

\* cap of restart_cnt where the respawn back-off is explored; above RESPAWN_MAX
MaxRespawn == 11

\* cap of the once counter of a run/task
MaxOnce == 2

\* runlevel switches the test of the runlevel change issues
MaxSwitches == 4

(* Program constants *)

RESPAWN_MAX == 10

SVC_TERM_TIMEOUT == 5000

\* timeouts service_step and service_retry pass to service_timeout_after
RETRY_FIRST == 1

RETRY_SHORT == 2000

RETRY_LONG == 5000

-----------------------------------------------------------------------------
(* Enumerations *)

SvcTypes == {"service", "task", "run", "inetd", "inetd_conn"}

SvcStates == {"halted", "done", "stopping", "ready", "waiting", "running"}

\* order of svc_state_t, used by service_stop's "state <= SVC_STOPPING_STATE"
StateOrd(st) ==
    CASE st = "halted"   -> 0
      [] st = "done"     -> 1
      [] st = "stopping" -> 2
      [] st = "ready"    -> 3
      [] st = "waiting"  -> 4
      [] st = "running"  -> 5

SvcBlocks == {"none", "missing", "crashing", "user", "busy", "restarting"}

CondStates == {"on", "off", "flux"}

\* what the environment answers to one service_start: fork() succeeds or
\* fails, finit is SIGSTOP'ed (is_norespawn), the binary is not in PATH
\* (whichp), and the exit status a run command completes with
Outcomes ==
    { [fork |-> f, norespawn |-> FALSE, missing |-> FALSE, status |-> st] :
          f \in {"ok", "fail"}, st \in {0, 1} }
    \cup { [fork |-> "ok", norespawn |-> TRUE,  missing |-> FALSE, status |-> 0],
           [fork |-> "ok", norespawn |-> FALSE, missing |-> TRUE,  status |-> 0] }

OutcomeOk == [fork |-> "ok", norespawn |-> FALSE, missing |-> FALSE, status |-> 0]

-----------------------------------------------------------------------------
(* The world a handler works on *)

World ==
    [svc |-> svc, procs |-> procs, nextpid |-> nextpid, pid_max |-> pid_max, cond |-> cond,
     runlevel |-> runlevel, sm |-> sm, work |-> work, ev |-> <<>>,
     diverged |-> FALSE, tr |-> <<>>, ret |-> 0]

Commit(w) ==
    /\ svc' = w.svc
    /\ procs' = w.procs
    /\ nextpid' = w.nextpid
    /\ pid_max' = w.pid_max
    /\ cond' = w.cond
    /\ runlevel' = w.runlevel
    /\ sm' = w.sm
    /\ work' = w.work
    /\ ev' = w.ev
    /\ diverged' = w.diverged
    /\ tr' = w.tr
    /\ conddir' = conddir
    /\ nl_defidx' = nl_defidx

\* a local of the C code: v is computed once and named by the parameter of K
Bind(v, K(_)) == K(v)

Set(w, s, f, v) == [w EXCEPT !.svc[s][f] = v]

Ret(w, r) == [w EXCEPT !.ret = r]

Emit(w, s, what, pid) == [w EXCEPT !.ev = Append(@, <<s, what, pid>>)]

Registered(w, s) == s \in DOMAIN w.svc

\* svc_t predicates and markers of svc.h
svc_is_daemon(w, s) == w.svc[s].type = "service"

svc_is_runtask(w, s) == w.svc[s].type \in {"task", "run"}

svc_is_inetd(w, s) == w.svc[s].type = "inetd"

svc_is_inetd_conn(w, s) == w.svc[s].type = "inetd_conn"

svc_is_changed(w, s) == w.svc[s].dirty # 0

svc_is_removed(w, s) == w.svc[s].dirty = -1

svc_is_blocked(w, s) == w.svc[s].block # "none"

svc_is_busy(w, s) == w.svc[s].block = "busy"

svc_in_runlevel(w, s, level) == level \in w.svc[s].runlevels

svc_enabled(w, s) ==
    /\ svc_in_runlevel(w, s, w.runlevel)
    /\ ~svc_is_removed(w, s)
    /\ ~svc_is_blocked(w, s)

svc_mark_clean(w, s) == Set(w, s, "dirty", 0)

svc_mark_dirty(w, s) == Set(w, s, "dirty", 1)

svc_unblock(w, s) == Set(w, s, "block", "none")

svc_missing(w, s) == Set(w, s, "block", "missing")

svc_crashing(w, s) == Set(w, s, "block", "crashing")

svc_restarting(w, s) == Set(w, s, "block", "restarting")

cond_get_agg(w, s) == w.cond[s]

sm_is_in_teardown(w) == w.sm.in_teardown

-----------------------------------------------------------------------------
(* Kernel: processes and signals *)

NoProc == [owner |-> 0, stopped |-> FALSE, term |-> FALSE, kill |-> FALSE]

\* the pids tried by an allocation that continues at n: n, n+1, ..., wrapping
PidAt(w, n, i) == 2 + ((n - 2 + i) % (w.pid_max - 1))

FreeOffsets(w) == {i \in 0..(w.pid_max - 2) : PidAt(w, w.nextpid, i) \notin DOMAIN w.procs}

Min(S) == CHOOSE x \in S : \A y \in S : x <= y

\* fork(): the next free pid in cyclic order, -1 when fork fails (the
\* environment's answer, or no pid is free)
ForkPid(w, o) ==
    IF o.fork = "ok" /\ FreeOffsets(w) # {}
    THEN PidAt(w, w.nextpid, Min(FreeOffsets(w)))
    ELSE -1

Spawn(w, s, pid) ==
    IF pid > 1
    THEN [w EXCEPT !.procs = [p \in DOMAIN @ \cup {pid} |->
                                 IF p = pid THEN [NoProc EXCEPT !.owner = s] ELSE @[p]],
                   !.nextpid = PidAt(w, pid, 1)]
    ELSE w

Deliver(p, sig) ==
    CASE sig = "SIGSTOP" -> [p EXCEPT !.stopped = TRUE]
      [] sig = "SIGCONT" -> [p EXCEPT !.stopped = FALSE]
      [] sig = "SIGTERM" -> [p EXCEPT !.term = TRUE]
      [] sig = "SIGKILL" -> [p EXCEPT !.kill = TRUE]
      [] sig = "SIGHUP"  -> p

\* kill(2): pid > 1 signals that process; pid 0 signals the caller's process
\* group and pid -1 every process the caller may signal, which for pid 1 is
\* every child it forked
Targets(w, pid) ==
    IF pid > 1 THEN {pid} \cap DOMAIN w.procs
    ELSE IF pid \in {0, -1} THEN DOMAIN w.procs
    ELSE {}

kill(w, s, pid, sig) ==
    LET w1 == Emit(w, s, sig, pid)
    IN [w1 EXCEPT !.procs = [p \in DOMAIN @ |->
                                IF p \in Targets(w, pid) THEN Deliver(@[p], sig) ELSE @[p]]]

-----------------------------------------------------------------------------
(* The timer slot of a service *)

\* uev_timer_init: arms the one-shot timer of the service.  Initialising a
\* timer that is still pending is recorded as "timer_reinit".
uev_timer_init(w, s, timeout) ==
    LET w1 == Emit(w, s, IF w.svc[s].timer_on THEN "timer_reinit" ELSE "timer_init", timeout)
    IN Set(Set(w1, s, "timer_on", TRUE), s, "timeout", timeout)

uev_timer_stop(w, s) == Set(Set(w, s, "timer_on", FALSE), s, "timeout", 0)

\* mutant: the -EBUSY guard of service_timeout_after is missing
ServiceTimeoutAfterNoBusy(w, s, timeout, cb) ==
    Ret(uev_timer_init(Set(w, s, "timer_cb", cb), s, timeout), 0)

service_timeout_after(w, s, timeout, cb) ==
    IF w.svc[s].timer_cb # "none"
    THEN Ret(Emit(w, s, "timer_busy", timeout), -16)
    ELSE Ret(uev_timer_init(Set(w, s, "timer_cb", cb), s, timeout), 0)

service_timeout_cancel(w, s) ==
    IF w.svc[s].timer_cb = "none"
    THEN w
    ELSE Set(uev_timer_stop(w, s), s, "timer_cb", "none")

\* *state = new, noted with what holds of the service at that moment
SetState(w, s, new) ==
    [w EXCEPT !.svc[s].state = new,
              !.tr = Append(@, [s        |-> s,
                                from     |-> w.svc[s].state,
                                to       |-> new,
                                type     |-> w.svc[s].type,
                                pid      |-> w.svc[s].pid,
                                enabled  |-> svc_enabled(w, s),
                                block    |-> w.svc[s].block,
                                changed  |-> svc_is_changed(w, s),
                                sighup   |-> w.svc[s].sighup,
                                cond     |-> cond_get_agg(w, s),
                                teardown |-> sm_is_in_teardown(w)])]

\* mutant: entering stopping arms no forced-kill timer
SvcSetStateNoTimer(w, s, new) == SetState(w, s, new)

svc_set_state(w, s, new) ==
    IF new = "stopping" /\ ~svc_is_inetd(w, s)
    THEN service_timeout_after(service_timeout_cancel(SetState(w, s, new), s),
                               s, SVC_TERM_TIMEOUT, "kill")
    ELSE SetState(w, s, new)

-----------------------------------------------------------------------------
(* Starting, stopping and signalling one service *)

\* inetd_start/inetd_stop/inetd_del/inetd_stop_children: the listener has no
\* process of its own, the service's pid stays 0
inetd_start(w, s) == Ret(w, 0)

inetd_stop(w, s) == w

\* complete(): waitpid() on the forked run command; with fork() == -1 it is
\* waitpid(-1), which fails with ECHILD unless another child exists
RunResult(w, pid, o) ==
    IF pid = -1 /\ DOMAIN w.procs = {} THEN 1 ELSE o.status

\* the rest of service_start once fork() has returned pid: svc->pid = pid,
\* and a run command is waited for on the spot
ServiceStarted(w, s, o, pid) ==
    IF w.svc[s].type = "run"
    THEN Ret(svc_set_state(
                 Set(Set(Emit([w EXCEPT !.procs = [p \in DOMAIN @ \ {pid} |-> @[p]]],
                              s, "complete", RunResult(w, pid, o)),
                         s, "pid", 0), s, "once", w.svc[s].once + 1),
                 s, "stopping"),
             RunResult(w, pid, o))
    ELSE Ret(Set(w, s, "pid", pid), 0)

ServiceFork(w, s, o, pid) ==
    ServiceStarted(Emit(Spawn(w, s, pid), s, "fork", pid), s, o, pid)

service_start(w, s, o) ==
    IF o.norespawn THEN Ret(Emit(w, s, "start", w.svc[s].pid), 1)
    ELSE IF o.missing THEN Ret(svc_missing(Emit(w, s, "start", w.svc[s].pid), s), 1)
    ELSE IF svc_is_inetd(w, s) THEN inetd_start(Emit(w, s, "start", w.svc[s].pid), s)
    ELSE ServiceFork(Emit(w, s, "start", w.svc[s].pid), s, o, ForkPid(w, o))

\* mutant: SIGKILL is sent whatever the pid is
ServiceKillAny(w, s) == kill(service_timeout_cancel(w, s), s, w.svc[s].pid, "SIGKILL")

service_kill(w, s) ==
    IF w.svc[s].pid <= 1
    THEN service_timeout_cancel(w, s)
    ELSE kill(service_timeout_cancel(w, s), s, w.svc[s].pid, "SIGKILL")

service_stop(w, s) ==
    IF StateOrd(w.svc[s].state) <= StateOrd("stopping")
    THEN Ret(w, 0)
    ELSE IF svc_is_inetd(w, s)
    THEN Ret(svc_set_state(inetd_stop(w, s), s, "stopping"), 0)
    ELSE IF w.svc[s].pid <= 1
    THEN Ret(service_timeout_cancel(w, s), 1)
    ELSE Ret(kill(svc_set_state(service_timeout_cancel(w, s), s, "stopping"),
                  s, w.svc[s].pid, "SIGTERM"), 0)

\* mutant: service_restart reports success without sending SIGHUP
ServiceRestartNoHup(w, s, o) ==
    IF o.norespawn THEN Ret(w, 1)
    ELSE IF ~w.svc[s].sighup THEN Ret(w, 1)
    ELSE IF w.svc[s].pid <= 1 THEN Ret(Set(w, s, "pid", 0), 1)
    ELSE Ret(w, 0)

ServiceRestart(w, s, o) ==
    IF o.norespawn THEN Ret(w, 1)
    ELSE IF ~w.svc[s].sighup THEN Ret(w, 1)
    ELSE IF w.svc[s].pid <= 1 THEN Ret(Set(w, s, "pid", 0), 1)
    ELSE Ret(kill(w, s, w.svc[s].pid, "SIGHUP"), 0)

service_restart(w, s, o) == ServiceRestart(Emit(w, s, "restart", w.svc[s].pid), s, o)

svc_del(w, s) == [w EXCEPT !.svc = [x \in DOMAIN @ \ {s} |-> @[x]]]

-----------------------------------------------------------------------------
(* service_step: the transition function of one service *)

RECURSIVE StepLoop(_, _, _, _, _)

\* service_unregister: the switch on the type, before svc_del()
ServiceUnregisterSwitch(w, s, o) ==
    LET par == w.svc[s].parent
    IN CASE svc_is_inetd(w, s) -> w
         [] svc_is_inetd_conn(w, s) ->
                IF Registered(w, par) /\ svc_is_busy(w, par)
                THEN StepLoop(svc_unblock(w, par), par, o, MaxSteps, FALSE)
                ELSE w
         [] OTHER -> service_stop(w, s)

service_unregister(w, s, o) == svc_del(ServiceUnregisterSwitch(w, s, o), s)

\* mutant: a halted service is made ready whether it is enabled or not
StepHaltedAlways(w, s) == svc_set_state(w, s, "ready")

StepHalted(w, s) ==
    IF svc_enabled(w, s) THEN svc_set_state(w, s, "ready") ELSE w

\* mutant: a finished connection is kept like any other finished record
StepDoneKeeps(w, s, o) ==
    IF svc_is_changed(w, s) THEN svc_set_state(w, s, "halted") ELSE w

StepDone(w, s, o) ==
    IF svc_is_inetd_conn(w, s) THEN service_unregister(w, s, o)
    ELSE IF svc_is_changed(w, s) THEN svc_set_state(w, s, "halted")
    ELSE w

\* mutant: stopping is left without waiting for the process to be collected
StepStoppingNoWait(w, s) ==
    svc_set_state(service_timeout_cancel(w, s), s,
                  IF w.svc[s].type \in {"service", "inetd"} THEN "halted" ELSE "done")

\* mutant: a collected daemon is made ready at once, halted is skipped
StepStoppingToReady(w, s) ==
    IF w.svc[s].pid = 0
    THEN svc_set_state(service_timeout_cancel(w, s), s,
                       IF w.svc[s].type \in {"service", "inetd"} THEN "ready" ELSE "done")
    ELSE w

StepStopping(w, s) ==
    IF w.svc[s].pid = 0
    THEN svc_set_state(service_timeout_cancel(w, s), s,
                       IF w.svc[s].type \in {"service", "inetd"} THEN "halted" ELSE "done")
    ELSE w

\* ready, after err = service_start(svc), which w.ret holds
StepStarted(w, s) ==
    IF w.ret # 0
    THEN IF ~svc_is_inetd_conn(w, s)
         THEN Set(w, s, "restart_cnt", w.svc[s].restart_cnt + 1)
         ELSE svc_set_state(
                  svc_mark_clean(Set(w, s, "restart_cnt", w.svc[s].restart_cnt + 1), s),
                  s, "running")
    ELSE svc_set_state(svc_mark_clean(w, s), s, "running")

\* mutant: ready does not wait for the teardown to end
StepReadyNoTeardown(w, s, o) ==
    IF ~svc_enabled(w, s) THEN svc_set_state(w, s, "halted")
    ELSE IF cond_get_agg(w, s) = "on"
    THEN StepStarted(service_start(w, s, o), s)
    ELSE w

StepReady(w, s, o) ==
    IF ~svc_enabled(w, s) THEN svc_set_state(w, s, "halted")
    ELSE IF cond_get_agg(w, s) = "on"
    THEN IF sm_is_in_teardown(w) THEN w
         ELSE StepStarted(service_start(w, s, o), s)
    ELSE w

\* mutant: flux moves the service to waiting without SIGSTOP
StepRunningCondNoStop(w, s, o) ==
    CASE cond_get_agg(w, s) = "off" -> service_stop(w, s)
      [] cond_get_agg(w, s) = "flux" -> svc_set_state(w, s, "waiting")
      [] cond_get_agg(w, s) = "on" ->
             IF svc_is_changed(w, s)
             THEN IF w.svc[s].sighup
                  THEN IF sm_is_in_teardown(w) THEN w
                       ELSE svc_mark_clean(service_restart(w, s, o), s)
                  ELSE IF svc_is_inetd(w, s)
                       THEN svc_mark_clean(w, s)
                       ELSE svc_mark_clean(service_stop(w, s), s)
             ELSE w

\* mutant: a running service is reloaded whether its file changed or not
StepRunningCondAlways(w, s, o) ==
    CASE cond_get_agg(w, s) = "off" -> service_stop(w, s)
      [] cond_get_agg(w, s) = "flux" ->
             svc_set_state(kill(w, s, w.svc[s].pid, "SIGSTOP"), s, "waiting")
      [] cond_get_agg(w, s) = "on" ->
             IF w.svc[s].sighup
             THEN IF sm_is_in_teardown(w) THEN w
                  ELSE svc_mark_clean(service_restart(w, s, o), s)
             ELSE IF svc_is_inetd(w, s)
                  THEN svc_mark_clean(w, s)
                  ELSE svc_mark_clean(service_stop(w, s), s)

StepRunningCond(w, s, o) ==
    CASE cond_get_agg(w, s) = "off" -> service_stop(w, s)
      [] cond_get_agg(w, s) = "flux" ->
             svc_set_state(kill(w, s, w.svc[s].pid, "SIGSTOP"), s, "waiting")
      [] cond_get_agg(w, s) = "on" ->
             IF svc_is_changed(w, s)
             THEN IF w.svc[s].sighup
                  THEN IF sm_is_in_teardown(w) THEN w
                       ELSE svc_mark_clean(service_restart(w, s, o), s)
                  ELSE IF svc_is_inetd(w, s)
                       THEN svc_mark_clean(w, s)
                       ELSE svc_mark_clean(service_stop(w, s), s)
             ELSE w

StepRunning(w, s, o) ==
    IF ~svc_enabled(w, s) THEN service_stop(w, s)
    ELSE IF w.svc[s].pid = 0 /\ svc_is_daemon(w, s)
    THEN service_timeout_after(svc_set_state(svc_restarting(w, s), s, "halted"),
                               s, RETRY_FIRST, "retry")
    ELSE IF w.svc[s].pid = 0 /\ svc_is_inetd_conn(w, s)
    THEN svc_set_state(w, s, "stopping")
    ELSE IF w.svc[s].pid = 0 /\ svc_is_runtask(w, s)
    THEN Set(svc_set_state(w, s, "stopping"), s, "once", w.svc[s].once + 1)
    ELSE StepRunningCond(w, s, o)

\* mutant: waiting goes back to running without SIGCONT
StepWaitingNoCont(w, s) ==
    IF ~svc_enabled(w, s)
    THEN service_stop(kill(w, s, w.svc[s].pid, "SIGCONT"), s)
    ELSE IF w.svc[s].pid = 0
    THEN svc_set_state(Set(w, s, "restart_cnt", w.svc[s].restart_cnt + 1), s, "ready")
    ELSE CASE cond_get_agg(w, s) = "on" -> svc_set_state(w, s, "running")
           [] cond_get_agg(w, s) = "off" ->
                  service_stop(kill(w, s, w.svc[s].pid, "SIGCONT"), s)
           [] cond_get_agg(w, s) = "flux" -> w

StepWaiting(w, s) ==
    IF ~svc_enabled(w, s)
    THEN service_stop(kill(w, s, w.svc[s].pid, "SIGCONT"), s)
    ELSE IF w.svc[s].pid = 0
    THEN svc_set_state(Set(w, s, "restart_cnt", w.svc[s].restart_cnt + 1), s, "ready")
    ELSE CASE cond_get_agg(w, s) = "on" ->
                  svc_set_state(kill(w, s, w.svc[s].pid, "SIGCONT"), s, "running")
           [] cond_get_agg(w, s) = "off" ->
                  service_stop(kill(w, s, w.svc[s].pid, "SIGCONT"), s)
           [] cond_get_agg(w, s) = "flux" -> w

StepSwitch(w, s, o) ==
    CASE w.svc[s].state = "halted"   -> StepHalted(w, s)
      [] w.svc[s].state = "done"     -> StepDone(w, s, o)
      [] w.svc[s].state = "stopping" -> StepStopping(w, s)
      [] w.svc[s].state = "ready"    -> StepReady(w, s, o)
      [] w.svc[s].state = "running"  -> StepRunning(w, s, o)
      [] w.svc[s].state = "waiting"  -> StepWaiting(w, s)

\* the "restart:" loop of service_step; changed counts the state changes
StepLoop(w, s, o, fuel, changed) ==
    IF fuel = 0 THEN [w EXCEPT !.diverged = TRUE]
    ELSE Bind(StepSwitch(w, s, o), LAMBDA w1 :
             IF ~Registered(w1, s) THEN Ret(w1, -1)
             ELSE IF w1.diverged THEN w1
             ELSE IF w1.svc[s].state # w.svc[s].state
             THEN StepLoop(w1, s, o, fuel - 1, TRUE)
             ELSE IF changed THEN Ret([w1 EXCEPT !.work = TRUE], 0)
             ELSE Ret(w1, 0))

service_step(w, s, o) == StepLoop(w, s, o, MaxSteps, FALSE)

-----------------------------------------------------------------------------
(* Timer callbacks, sweeps over the registry *)

\* service_retry after the step of the unblocked service: the next timeout
\* mutant: the retry never backs off to the long delay
ServiceRetryAgainShort(w, s) ==
    IF ~Registered(w, s) \/ w.diverged THEN w
    ELSE service_timeout_after(w, s, RETRY_SHORT, "retry")

ServiceRetryAgain(w, s) ==
    IF ~Registered(w, s) \/ w.diverged THEN w
    ELSE service_timeout_after(w, s,
             IF w.svc[s].restart_cnt <= RESPAWN_MAX \div 2
             THEN RETRY_SHORT ELSE RETRY_LONG,
             "retry")

\* mutant: the daemon that keeps crashing is marked, and retried all the same
ServiceRetryKeepsTimer(w, s, o) ==
    IF w.svc[s].state # "halted" \/ w.svc[s].block # "restarting"
    THEN Set(w, s, "restart_cnt", 0)
    ELSE IF w.svc[s].restart_cnt >= RESPAWN_MAX
    THEN ServiceRetryAgain(
             service_step(Set(svc_crashing(w, s), s, "restart_cnt", 0), s, o), s)
    ELSE ServiceRetryAgain(
             service_step(svc_unblock(Set(w, s, "restart_cnt", w.svc[s].restart_cnt + 1), s),
                          s, o),
             s)

\* mutant: the retry starts the daemon with restart_cnt back at 0
ServiceRetryForgets(w, s, o) ==
    IF w.svc[s].state # "halted" \/ w.svc[s].block # "restarting"
    THEN Set(w, s, "restart_cnt", 0)
    ELSE IF w.svc[s].restart_cnt >= RESPAWN_MAX
    THEN service_step(Set(svc_crashing(w, s), s, "restart_cnt", 0), s, o)
    ELSE ServiceRetryAgain(
             service_step(svc_unblock(Set(w, s, "restart_cnt", 0), s), s, o),
             s)

\* service_retry after service_timeout_cancel
ServiceRetry(w, s, o) ==
    IF w.svc[s].state # "halted" \/ w.svc[s].block # "restarting"
    THEN Set(w, s, "restart_cnt", 0)
    ELSE IF w.svc[s].restart_cnt >= RESPAWN_MAX
    THEN service_step(Set(svc_crashing(w, s), s, "restart_cnt", 0), s, o)
    ELSE ServiceRetryAgain(
             service_step(svc_unblock(Set(w, s, "restart_cnt", w.svc[s].restart_cnt + 1), s),
                          s, o),
             s)

service_retry(w, s, o) == ServiceRetry(service_timeout_cancel(w, s), s, o)

\* service_timeout_cb: the one-shot timer has expired, run the registered callback
service_timeout_cb(w, s, o) ==
    CASE w.svc[s].timer_cb = "kill"  -> service_kill(Set(w, s, "timer_on", FALSE), s)
      [] w.svc[s].timer_cb = "retry" -> service_retry(Set(w, s, "timer_on", FALSE), s, o)
      [] OTHER -> Set(w, s, "timer_on", FALSE)

RECURSIVE SeqOf(_)
\* the services in registration order
SeqOf(S) == IF S = {} THEN <<>> ELSE <<Min(S)>> \o SeqOf(S \ {Min(S)})

TypesAny == SvcTypes

TypesWorker == {"service", "task", "run", "inetd"}

RECURSIVE StepEach(_, _, _, _)
StepEach(w, ids, types, o) ==
    IF ids = <<>> \/ w.diverged THEN w
    ELSE LET s == Head(ids)
         IN StepEach(IF Registered(w, s) /\ w.svc[s].type \in types
                     THEN service_step(w, s, o[s]) ELSE w,
                     Tail(ids), types, o)

service_step_all(w, types, o) == StepEach(w, SeqOf(DOMAIN w.svc), types, o)

\* a lap that forgets to clear once
RuntaskCleanKeepOnce(w, s) ==
    IF svc_is_runtask(w, s) /\ w.svc[s].state = "done"
    THEN svc_set_state(w, s, "halted")
    ELSE w

\* one lap of service_runtask_clean's loop
RuntaskClean(w, s) ==
    IF ~svc_is_runtask(w, s) THEN w
    ELSE IF w.svc[s].state = "done"
    THEN svc_set_state(Set(w, s, "once", 0), s, "halted")
    ELSE Set(w, s, "once", 0)

RECURSIVE RuntaskCleanEach(_, _)
RuntaskCleanEach(w, ids) ==
    IF ids = <<>> THEN w
    ELSE RuntaskCleanEach(RuntaskClean(w, Head(ids)), Tail(ids))

service_runtask_clean(w) == RuntaskCleanEach(w, SeqOf(DOMAIN w.svc))

-----------------------------------------------------------------------------
(* Reload and runlevel sequencing (sm_step) *)

SmIdle == [state |-> "running", newlevel |-> -1, reload |-> FALSE, in_teardown |-> FALSE]

ReloadClasses == {"same", "changed", "removed"}

\* re-reading the configuration: service_register() marks a definition whose
\* file changed dirty and any other clean; a definition that is gone stays
\* marked removed
conf_reload(w, cls) ==
    [w EXCEPT !.svc = [s \in DOMAIN @ |->
        [@[s] EXCEPT !.dirty = CASE cls[s] = "changed" -> 1
                                 [] cls[s] = "removed" -> -1
                                 [] OTHER -> 0]]]

svc_stop_completed(w) == \A s \in DOMAIN w.svc : w.svc[s].state # "stopping"

RECURSIVE Sweep(_, _, _)
\* svc_clean_dynamic(service_unregister): drop the records marked removed
Sweep(w, ids, o) ==
    IF ids = <<>> \/ w.diverged THEN w
    ELSE Sweep(IF Registered(w, Head(ids)) /\ svc_is_removed(w, Head(ids))
               THEN service_unregister(w, Head(ids), o[Head(ids)]) ELSE w,
               Tail(ids), o)

svc_clean_dynamic(w, o) == Sweep(w, SeqOf(DOMAIN w.svc), o)

SmSet(w, f, v) == [w EXCEPT !.sm[f] = v]

SmRunning(w) ==
    IF w.sm.newlevel \in 0..9
    THEN IF w.runlevel = w.sm.newlevel
         THEN SmSet(w, "newlevel", -1)
         ELSE SmSet(w, "state", "runlevel_change")
    ELSE IF w.sm.reload
    THEN SmSet(SmSet(w, "reload", FALSE), "state", "reload_change")
    ELSE w

\* sm.in_teardown = v; the change is recorded among the events
SmTeardown(w, v) ==
    Emit(SmSet(w, "in_teardown", v), 0, IF v THEN "teardown_begin" ELSE "teardown_end", 0)

SmRunlevelChange(w, o) ==
    SmSet(service_step_all(
              SmTeardown(service_runtask_clean(
                             SmSet([w EXCEPT !.runlevel = w.sm.newlevel], "newlevel", -1)),
                         TRUE),
              TypesAny, o),
          "state", "runlevel_wait")

SmRunlevelWait(w, o) ==
    IF ~svc_stop_completed(w) THEN w
    ELSE SmSet(svc_clean_dynamic(
                   service_step_all(Emit(SmTeardown(w, FALSE), 0, "hook_runlevel_change", 0),
                                    TypesAny, o),
                   o),
               "state", "running")

SmReloadChange(w, o, cls) ==
    SmSet(service_step_all(SmTeardown(conf_reload(w, cls), TRUE), TypesWorker, o),
          "state", "reload_wait")

SmReloadWait(w, o) ==
    IF ~svc_stop_completed(w) THEN w
    ELSE SmSet(svc_clean_dynamic(
                   service_step_all(Emit(SmTeardown(w, FALSE), 0, "hook_svc_reconf", 0),
                                    TypesWorker, o),
                   o),
               "state", "running")

SmSwitch(w, o, cls) ==
    CASE w.sm.state = "running"         -> SmRunning(w)
      [] w.sm.state = "runlevel_change" -> SmRunlevelChange(w, o)
      [] w.sm.state = "runlevel_wait"   -> SmRunlevelWait(w, o)
      [] w.sm.state = "reload_change"   -> SmReloadChange(w, o, cls)
      [] w.sm.state = "reload_wait"     -> SmReloadWait(w, o)

RECURSIVE sm_step(_, _, _)
sm_step(w, o, cls) ==
    IF w.diverged THEN w
    ELSE Bind(SmSwitch(w, o, cls), LAMBDA w1 :
             IF w1.sm.state # w.sm.state THEN sm_step(w1, o, cls) ELSE w1)

-----------------------------------------------------------------------------
(* Handlers of the event loop *)

svc_find_by_pid(w, pid) == {s \in DOMAIN w.svc : w.svc[s].pid = pid}

\* SIGCHLD: child `lost` has been reaped
service_monitor(w, lost, o, cls) ==
    IF lost <= 1 \/ svc_find_by_pid(w, lost) = {} THEN w
    ELSE Bind(Min(svc_find_by_pid(w, lost)), LAMBDA s :
             sm_step(service_step(Set(w, s, "pid", 0), s, o[s]), o, cls))

service_worker(w, o) == service_step_all(w, TypesWorker, o)

service_reload_dynamic(w, o, cls) == sm_step(SmSet(w, "reload", TRUE), o, cls)

service_runlevel(w, newlevel, o, cls) == sm_step(SmSet(w, "newlevel", newlevel), o, cls)

\* plugin_hook_str(): the condition a hook goes by
plugin_hook_str(hook) ==
    CASE hook = "HOOK_SVC_UP" -> <<"hook/svc/up">>
      [] hook = "HOOK_SYSTEM_UP" -> <<"hook/sys/up">>

\* strstr(): needle occurs somewhere in haystack, both strings held as the
\* sequence of their pieces
strstr(haystack, needle) ==
    \E i \in 1..(Len(haystack) - Len(needle) + 1) :
        SubSeq(haystack, i, i + Len(needle) - 1) = needle

\* mutant: the run commands and tasks that wait for a hook count as well
ServiceCompletedAll(w) ==
    IF \A s \in DOMAIN w.svc :
          (svc_is_runtask(w, s) /\ svc_enabled(w, s)) => w.svc[s].once # 0
    THEN 1 ELSE 0

\* have all run/task completed in the current runlevel: 1 or 0
service_completed(w) ==
    IF \A s \in DOMAIN w.svc :
          (/\ svc_is_runtask(w, s)
           /\ svc_enabled(w, s)
           /\ ~strstr(w.svc[s].cond, plugin_hook_str("HOOK_SVC_UP"))
           /\ ~strstr(w.svc[s].cond, plugin_hook_str("HOOK_SYSTEM_UP")))
              => w.svc[s].once # 0
    THEN 1 ELSE 0

-----------------------------------------------------------------------------
(* Actions: one per handler *)

\* An environment e bounds what a specification explores: e.cap caps
\* restart_cnt, which the code never bounds, and e.outcomes are the answers
\* the environment gives to service_start.  A run command alone has an exit
\* status to report.
OutcomesOf(e, s) ==
    IF svc[s].type = "run" THEN e.outcomes ELSE {o \in e.outcomes : o.status = 0}

OkMap == [s \in DOMAIN svc |-> OutcomeOk]

OutcomeMaps(e) ==
    {o \in [DOMAIN svc -> e.outcomes] : \A s \in DOMAIN svc : o[s] \in OutcomesOf(e, s)}

\* the answers are read by service_start and service_restart only: a handler
\* that calls neither behaves the same under every answer
ReadsOutcome(w) == \E i \in DOMAIN w.ev : w.ev[i][2] \in {"start", "restart"}

\* the classification a reload would read; only a handler that runs the
\* reload reads it
SameMap == [s \in DOMAIN svc |-> "same"]

ReloadMaps(pending) == IF pending THEN [DOMAIN svc -> ReloadClasses] ELSE {SameMap}

Capped(w, e) ==
    \A s \in DOMAIN w.svc :
        /\ w.svc[s].restart_cnt <= e.cap
        /\ w.svc[s].once <= MaxOnce

Handle(w, e) == Capped(w, e) /\ Commit(w)

Reaped(p) == [World EXCEPT !.procs = [q \in DOMAIN @ \ {p} |-> @[q]]]

\* a child process exits (or is killed) and SIGCHLD is handled
ServiceMonitor(e) ==
    /\ ~diverged
    /\ \E p \in DOMAIN procs, o \in OutcomeMaps(e), cls \in ReloadMaps(sm.reload) :
          /\ o = OkMap \/ ReadsOutcome(service_monitor(Reaped(p), p, OkMap, cls))
          /\ \E w \in {service_monitor(Reaped(p), p, o, cls)} : Handle(w, e)
    /\ UNCHANGED test

\* the timer of a service expires
ServiceTimeout(e) ==
    /\ ~diverged
    /\ \E s \in DOMAIN svc :
       \E o \in OutcomesOf(e, s) :
          /\ svc[s].timer_on
          /\ o = OutcomeOk \/ ReadsOutcome(service_timeout_cb(World, s, OutcomeOk))
          /\ \E w \in {service_timeout_cb(World, s, o)} : Handle(w, e)
    /\ UNCHANGED test

\* the deferred work item runs
ServiceWorker(e) ==
    /\ ~diverged
    /\ work
    /\ \E o \in OutcomeMaps(e) :
          /\ o = OkMap \/ ReadsOutcome(service_worker([World EXCEPT !.work = FALSE], OkMap))
          /\ \E w \in {service_worker([World EXCEPT !.work = FALSE], o)} : Handle(w, e)
    /\ UNCHANGED test

\* the condition aggregate of a service changes; the sweep is deferred
CondChange(e) ==
    /\ ~diverged
    /\ \E s \in DOMAIN svc, c \in CondStates :
          /\ cond[s] # c
          /\ Handle([World EXCEPT !.cond[s] = c, !.work = TRUE], e)
    /\ UNCHANGED test

\* SIGHUP or "initctl reload"
Reload(e) ==
    /\ ~diverged
    /\ \E o \in OutcomeMaps(e), cls \in ReloadMaps(TRUE) :
          /\ o = OkMap \/ ReadsOutcome(service_reload_dynamic(World, OkMap, cls))
          /\ \E w \in {service_reload_dynamic(World, o, cls)} : Handle(w, e)
    /\ UNCHANGED test

Levels == {2, 3}

\* "initctl runlevel N"
Runlevel(e) ==
    /\ ~diverged
    /\ \E l \in Levels, o \in OutcomeMaps(e), cls \in ReloadMaps(sm.reload) :
          /\ o = OkMap \/ ReadsOutcome(service_runlevel(World, l, OkMap, cls))
          /\ \E w \in {service_runlevel(World, l, o, cls)} : Handle(w, e)
    /\ UNCHANGED test

\* the whole supervisor under every answer of the environment
Env == [cap |-> MaxCnt, outcomes |-> Outcomes]

Next ==
    \/ ServiceMonitor(Env)
    \/ ServiceTimeout(Env)
    \/ ServiceWorker(Env)
    \/ CondChange(Env)
    \/ Reload(Env)
    \/ Runlevel(Env)

-----------------------------------------------------------------------------
(* Initial states *)

\* svc_new(): a fresh record
NewSvc(type, sighup, levels, parent) ==
    [type |-> type, state |-> "halted", pid |-> 0, block |-> "none", dirty |-> 0,
     sighup |-> sighup, runlevels |-> levels, restart_cnt |-> 0, once |-> 0,
     timer_cb |-> "none", timer_on |-> FALSE, timeout |-> 0, parent |-> parent,
     cond |-> <<>>]

NoTest == [n |-> 0, oldpid |-> <<>>, cls |-> <<>>]

InitGlobals ==
    /\ procs = <<>>
    /\ nextpid = 2
    /\ runlevel = 2
    /\ sm = SmIdle
    /\ work = TRUE
    /\ ev = <<>>
    /\ diverged = FALSE
    /\ tr = <<>>
    /\ test = NoTest
    /\ conddir = <<>>
    /\ nl_defidx = 0

\* the kinds of service record a configuration declares: type and sighup
Kinds ==
    {<<"service", TRUE>>, <<"service", FALSE>>, <<"task", FALSE>>,
     <<"run", FALSE>>, <<"inetd", FALSE>>}

\* one registered service of any kind, with any condition aggregate
Init ==
    /\ \E k \in Kinds : svc = (1 :> NewSvc(k[1], k[2], {2}, 0))
    /\ cond \in [{1} -> CondStates]
    /\ pid_max = MaxPid
    /\ InitGlobals

Spec == Init /\ [][Next]_vars

-----------------------------------------------------------------------------
(* The respawn back-off of one daemon, restart_cnt running past RESPAWN_MAX *)

RespawnEnv == [cap |-> MaxRespawn, outcomes |-> Outcomes]

InitRespawn ==
    /\ svc = (1 :> NewSvc("service", FALSE, {2}, 0))
    /\ cond = (1 :> "on")
    /\ pid_max = MaxPid
    /\ InitGlobals

NextRespawn ==
    \/ ServiceMonitor(RespawnEnv)
    \/ ServiceTimeout(RespawnEnv)
    \/ ServiceWorker(RespawnEnv)
    \/ CondChange(RespawnEnv)

SpecRespawn == InitRespawn /\ [][NextRespawn]_vars

-----------------------------------------------------------------------------
(* test/start-kill-service.sh: a daemon is started and then killed over and  *)
(* over; every start succeeds                                                *)

KillEnv == [cap |-> MaxRespawn, outcomes |-> {OutcomeOk}]

\* "slay service.sh": SIGKILL to the process of the service, which is then
\* collected by service_monitor; the test notes the pid it killed first
Slay(e) ==
    /\ ~diverged
    /\ test.n < MaxKills
    /\ \E s \in DOMAIN svc :
          /\ svc[s].pid \in DOMAIN procs
          /\ \E w \in {service_monitor(Reaped(svc[s].pid), svc[s].pid, OkMap, SameMap)} :
                Handle(w, e)
          /\ test' = [n      |-> test.n + 1,
                      oldpid |-> IF test.n = 0 THEN [x \in DOMAIN svc |-> svc[x].pid]
                                 ELSE test.oldpid,
                      cls    |-> test.cls]

InitKill ==
    /\ svc = (1 :> NewSvc("service", FALSE, {2}, 0))
    /\ cond = (1 :> "on")
    /\ pid_max = MaxPidTest
    /\ InitGlobals

NextKill ==
    \/ Slay(KillEnv)
    \/ ServiceTimeout(KillEnv)
    \/ ServiceWorker(KillEnv)

SpecKill == InitKill /\ [][NextKill]_vars

-----------------------------------------------------------------------------
(* Two daemons, one reloaded by SIGHUP and one by restart, under reloads;    *)
(* every start succeeds                                                      *)

PairEnv == [cap |-> MaxCnt, outcomes |-> {OutcomeOk}]

InitPair ==
    /\ svc = (1 :> NewSvc("service", TRUE, {2}, 0)) @@ (2 :> NewSvc("service", FALSE, {2}, 0))
    /\ cond = (1 :> "on") @@ (2 :> "on")
    /\ InitGlobals

InitTeardown == InitPair /\ pid_max = MaxPid

NextTeardown ==
    \/ ServiceMonitor(PairEnv)
    \/ ServiceTimeout(PairEnv)
    \/ ServiceWorker(PairEnv)
    \/ Reload(PairEnv)

SpecTeardown == InitTeardown /\ [][NextTeardown]_vars

\* the test touches the files of some services and reloads once every
\* service runs; it notes the pids the services have
TestReload(e) ==
    /\ ~diverged
    /\ test.n < MaxReloads
    /\ sm = SmIdle
    /\ \A s \in DOMAIN svc : svc[s].state = "running" /\ svc[s].pid \in DOMAIN procs
    /\ \E cls \in [DOMAIN svc -> {"same", "changed"}] :
          /\ \E w \in {service_reload_dynamic(World, OkMap, cls)} : Handle(w, e)
          /\ test' = [n      |-> test.n + 1,
                      oldpid |-> [x \in DOMAIN svc |-> svc[x].pid],
                      cls    |-> cls]

\* a process that was sent SIGTERM or SIGKILL exits and is collected
Terminated(e) ==
    /\ ~diverged
    /\ \E p \in DOMAIN procs :
          /\ procs[p].term \/ procs[p].kill
          /\ \E w \in {service_monitor(Reaped(p), p, OkMap, SameMap)} : Handle(w, e)
    /\ UNCHANGED test

InitReload == InitPair /\ pid_max = MaxPidTest

NextReload ==
    \/ TestReload(PairEnv)
    \/ Terminated(PairEnv)
    \/ ServiceTimeout(PairEnv)
    \/ ServiceWorker(PairEnv)

SpecReload == InitReload /\ [][NextReload]_vars

-----------------------------------------------------------------------------
(* Run commands and tasks of a runlevel, one of them with its condition     *)
(* off; the runlevel is entered and left; every start succeeds              *)

\* service 1 is the run command whose condition is off
InitCompleted ==
    /\ svc = (1 :> NewSvc("run", FALSE, {2}, 0)) @@ (2 :> NewSvc("task", FALSE, {2}, 0))
                 @@ (3 :> NewSvc("run", FALSE, {2}, 0))
    /\ cond = (1 :> "off") @@ (2 :> "on") @@ (3 :> "on")
    /\ pid_max = MaxPidTest
    /\ InitGlobals

NextCompleted ==
    \/ Runlevel(PairEnv)
    \/ ServiceMonitor(PairEnv)
    \/ ServiceTimeout(PairEnv)
    \/ ServiceWorker(PairEnv)

SpecCompleted == InitCompleted /\ [][NextCompleted]_vars

-----------------------------------------------------------------------------
(* A switch between runlevels 2 and 4 with daemons A in [2345], B in [23],  *)
(* C in [45] and a task D in [2345]; every start succeeds                   *)

InitSwitch ==
    /\ svc = (1 :> NewSvc("service", FALSE, {2, 3, 4, 5}, 0))
                 @@ (2 :> NewSvc("service", FALSE, {2, 3}, 0))
                 @@ (3 :> NewSvc("service", FALSE, {4, 5}, 0))
                 @@ (4 :> NewSvc("task", FALSE, {2, 3, 4, 5}, 0))
    /\ cond = [s \in 1..4 |-> "on"]
    /\ pid_max = MaxPidTest
    /\ InitGlobals

\* "initctl runlevel N" once the daemons of the current runlevel run; the
\* test notes the pids the services have
TestRunlevel(e) ==
    /\ ~diverged
    /\ test.n < MaxSwitches
    /\ sm = SmIdle
    /\ \A s \in DOMAIN svc :
          (svc[s].type = "service" /\ runlevel \in svc[s].runlevels)
              => svc[s].state = "running" /\ svc[s].pid \in DOMAIN procs
    /\ \E l \in {2, 4} \ {runlevel} :
          \E w \in {service_runlevel(World, l, OkMap, SameMap)} : Handle(w, e)
    /\ test' = [n      |-> test.n + 1,
                oldpid |-> [x \in DOMAIN svc |-> svc[x].pid],
                cls    |-> test.cls]

\* the process of a run/task exits by itself and is collected
Completed(e) ==
    /\ ~diverged
    /\ \E p \in DOMAIN procs :
          /\ procs[p].owner \in DOMAIN svc
          /\ svc[procs[p].owner].type \in {"task", "run"}
          /\ \E w \in {service_monitor(Reaped(p), p, OkMap, SameMap)} : Handle(w, e)
    /\ UNCHANGED test

NextSwitch ==
    \/ TestRunlevel(PairEnv)
    \/ Terminated(PairEnv)
    \/ Completed(PairEnv)
    \/ ServiceTimeout(PairEnv)
    \/ ServiceWorker(PairEnv)

SpecSwitch == InitSwitch /\ [][NextSwitch]_vars

-----------------------------------------------------------------------------
(* service_register: the lines of a configuration are registered one by one *)

\* how many configurations are registered in one behaviour
MaxConfs == 1

\* the (cmd, id) pairs a configuration line may name; a record of the
\* registry is looked up by this pair, which is its key in svc
RegIds == {1, 2}

RegTypes == {"service", "inetd"}

\* [S], [2] and [3]
RegLevels == {{0}, {2}, {3}}

\* a line of a configuration: the type of its stanza, the (cmd, id) it
\* names, its runlevels and whether it says manual:yes
Lines ==
    {l \in [type : RegTypes, id : RegIds, levels : RegLevels, manual : BOOLEAN] :
        l.manual => l.type = "service" /\ l.levels = {2}}

svc_find(w, id) == IF id \in DOMAIN w.svc THEN id ELSE 0

\* svc_new(): a zeroed record is linked into the registry; a record without
\* conditions has the aggregate on
svc_new(w, id, type) ==
    Emit([w EXCEPT !.svc = (id :> NewSvc(type, FALSE, {}, 0)) @@ @,
                   !.cond = @ @@ (id :> "on")], id, "svc_new", 0)

\* svc_stop(): the service is blocked by the user
svc_stop(w, s) == Set(w, s, "block", "user")

\* an inetd line names the service and protocol of the inetd record that has
\* its (cmd, id), if there is one
inetd_find_svc(w, id) ==
    IF id \in DOMAIN w.svc /\ svc_is_inetd(w, id) THEN id ELSE 0

inetd_new(w, s) == Ret(w, 0)

\* the end of service_register: the record is marked dirty or clean
RegisterMark(w, s, changed) ==
    Ret(IF changed THEN svc_mark_dirty(w, s) ELSE svc_mark_clean(w, s), 0)

\* from "svc->runlevels = levels" on
RegisterFill(w, l, changed) ==
    IF svc_is_inetd(w, l.id) /\ inetd_new(w, l.id).ret # 0
    THEN Ret(svc_del(w, l.id), 0)
    ELSE RegisterMark(Set(w, l.id, "runlevels", l.levels), l.id, changed)

\* mutant: a record that exists is replaced by a fresh one
RegisterFindFresh(w, l) ==
    IF l.type = "service" /\ l.manual
    THEN svc_stop(svc_new(svc_del(w, l.id), l.id, l.type), l.id)
    ELSE svc_new(svc_del(w, l.id), l.id, l.type)

\* the record of (cmd, id) is found, or created, or deleted and created again
RegisterFind(w, l) ==
    IF svc_find(w, l.id) = 0
    THEN IF l.type = "service" /\ l.manual
         THEN svc_stop(svc_new(w, l.id, l.type), l.id)
         ELSE svc_new(w, l.id, l.type)
    ELSE IF svc_is_inetd(w, l.id) /\ l.type # "inetd"
    THEN svc_new(svc_del(w, l.id), l.id, l.type)
    ELSE w

service_register(w, l, changed) ==
    IF w.runlevel > 0 /\ l.levels \ {0} = {}
    THEN Ret(w, 0)
    ELSE IF l.type = "inetd" /\ inetd_find_svc(w, l.id) # 0
    THEN RegisterMark(w, l.id, changed)
    ELSE RegisterFill(RegisterFind(w, l), l, changed)

\* the lines of a configuration are registered in their order; each call is
\* recorded with its line and the value it returns
RECURSIVE RegisterEach(_, _, _)
RegisterEach(w, ls, changed) ==
    IF ls = <<>> THEN w
    ELSE RegisterEach(Bind(service_register(w, Head(ls), changed),
                           LAMBDA v : Emit(v, Head(ls).id, "register",
                                            [ret |-> v.ret, line |-> Head(ls)])),
                      Tail(ls), changed)

\* a configuration has one line, or two lines that name one (cmd, id)
Confs == {<<l>> : l \in Lines} \cup {c \in Lines \X Lines : c[1].id = c[2].id}

\* a configuration is registered; its loader has the services stepped
\* afterwards
TestRegister(e) ==
    /\ ~diverged
    /\ test.n < MaxConfs
    /\ \E ls \in Confs, changed \in BOOLEAN :
          /\ Handle(RegisterEach([World EXCEPT !.work = TRUE], ls, changed), e)
          /\ test' = [test EXCEPT !.n = @ + 1]

InitRegister ==
    /\ \E k \in RegTypes : svc = (1 :> NewSvc(k, FALSE, {2}, 0))
    /\ cond = (1 :> "on")
    /\ pid_max = MaxPid
    /\ InitGlobals

NextRegister ==
    \/ TestRegister(PairEnv)
    \/ ServiceMonitor(PairEnv)
    \/ ServiceTimeout(PairEnv)
    \/ ServiceWorker(PairEnv)

SpecRegister == InitRegister /\ [][NextRegister]_vars

-----------------------------------------------------------------------------
(* The configuration is reloaded again and again, changed or not; every      *)
(* start succeeds                                                            *)

\* how many times the configuration is reloaded in one behaviour
MaxAgain == 2

\* the configuration is reloaded while no reload or runlevel change is under
\* way; the files of some services were touched or removed, or none was
TestReloadAgain(e) ==
    /\ ~diverged
    /\ test.n < MaxAgain
    /\ sm = SmIdle
    /\ \E cls \in [DOMAIN svc -> ReloadClasses] :
          /\ \E w \in {service_reload_dynamic(Emit(World, 0, "reload", cls), OkMap, cls)} :
                Handle(w, e)
          /\ test' = [test EXCEPT !.n = @ + 1]

InitAgain ==
    /\ \E k \in Kinds : svc = (1 :> NewSvc(k[1], k[2], {2}, 0))
    /\ cond = (1 :> "on")
    /\ pid_max = MaxPid
    /\ InitGlobals

NextAgain ==
    \/ TestReloadAgain(PairEnv)
    \/ ServiceMonitor(PairEnv)
    \/ ServiceTimeout(PairEnv)
    \/ ServiceWorker(PairEnv)
    \/ CondChange(PairEnv)

SpecAgain == InitAgain /\ [][NextAgain]_vars

-----------------------------------------------------------------------------
(* initctl cond set | clear | get | show: the client works on the condition *)
(* files                                                                     *)

\* the longest argument of initctl cond, in pieces
MaxArg == 1

\* the longest condition list of a service
MaxConds == 3

\* a string is a sequence of these pieces
Pieces == {"a", ".", "pid/a", "usr/"}

\* strchr(piece, c) for c = '/' and c = '.'
PieceHas(piece, c) ==
    \/ c = "/" /\ piece \in {"pid/a", "usr/"}
    \/ c = "." /\ piece = "."

strchr(str, c) == \E i \in DOMAIN str : PieceHas(str[i], c)

COND_USR == <<"usr/">>

\* strncmp(str, pre, strlen(pre)) == 0
HasPrefix(str, pre) == Len(str) >= Len(pre) /\ SubSeq(str, 1, Len(pre)) = pre

\* arg += strlen(COND_USR) when arg begins with it
SkipUsr(arg) ==
    IF HasPrefix(arg, COND_USR) THEN SubSeq(arg, Len(COND_USR) + 1, Len(arg)) ELSE arg

\* the path below _PATH_COND that the name is looked up at
CondPath(name) == IF strchr(name, "/") THEN name ELSE COND_USR \o name

\* fexist(): the file is there (the file a link names, _PATH_RECONF, exists
\* while finit runs)
fexist(dir, path) == path \in DOMAIN dir

condop_t == {"COND_CLR", "COND_SET", "COND_GET"}

Done(dir, code, out) == [dir |-> dir, exit |-> code, out |-> out]

\* mutant: setting a condition that is set already is an error
CondSetStrict(dir, path, io) ==
    IF path \in DOMAIN dir \/ io = "fail" THEN Done(dir, 73, "")
    ELSE Done((path :> "on") @@ dir, 0, "")

\* symlink(_PATH_RECONF, path), the error EEXIST tolerated
CondSet(dir, path, io) ==
    IF path \in DOMAIN dir THEN Done(dir, 0, "")
    ELSE IF io = "fail" THEN Done(dir, 73, "")
    ELSE Done((path :> "on") @@ dir, 0, "")

\* erase(path), the error ENOENT tolerated
CondClr(dir, path, io) ==
    IF path \notin DOMAIN dir THEN Done(dir, 0, "")
    ELSE IF io = "fail" THEN Done(dir, 73, "")
    ELSE Done([q \in DOMAIN dir \ {path} |-> dir[q]], 0, "")

CondGet(dir, path, verbose) ==
    IF fexist(dir, path)
    THEN Done(dir, 0, IF verbose THEN "on" ELSE "")
    ELSE Done(dir, 1, IF verbose THEN "off" ELSE "")

\* from "if (strchr(arg, '/'))" on: arg is the name without usr/
CondAct(dir, arg, op, io, verbose) ==
    CASE op = "COND_GET" -> CondGet(dir, CondPath(arg), verbose)
      [] op = "COND_SET" -> CondSet(dir, CondPath(arg), io)
      [] op = "COND_CLR" -> CondClr(dir, CondPath(arg), io)

\* mutant: a name with a slash is taken as it is
CondCheckedAny(dir, arg, op, io, verbose) ==
    IF arg = <<>> THEN Done(dir, 2, "")
    ELSE CondAct(dir, arg, op, io, verbose)

\* after the prefix usr/ is skipped
CondChecked(dir, arg, op, io, verbose) ==
    IF arg = <<>> THEN Done(dir, 2, "")
    ELSE IF op # "COND_GET" /\ strchr(arg, "/") THEN Done(dir, 2, "")
    ELSE IF op # "COND_GET" /\ strchr(arg, ".") THEN Done(dir, 2, "")
    ELSE CondAct(dir, arg, op, io, verbose)

\* a missing argument (NULL) is the empty string here: both end in ERRX(2)
do_cond_act(dir, arg, op, io, verbose) == CondChecked(dir, SkipUsr(arg), op, io, verbose)

\* cond_get(): the value of one condition
cond_get(dir, name) == IF name \in DOMAIN dir THEN dir[name] ELSE "off"

\* cond_get_agg(): the conditions of the list are looked up one after the
\* other; the first that is off decides, and so does any that is in flux
\* when none is off
RECURSIVE CondGetAgg(_, _, _)
CondGetAgg(dir, conds, agg) ==
    IF conds = <<>> THEN agg
    ELSE IF cond_get(dir, Head(conds)) = "off" THEN "off"
    ELSE CondGetAgg(dir, Tail(conds),
                    IF cond_get(dir, Head(conds)) = "flux" THEN "flux" ELSE agg)

\* mutant: every condition is shown as asserted
SvcCondPlus(dir, conds) == [i \in DOMAIN conds |-> <<"+", conds[i]>>]

\* svc_cond(): each condition of the list with + (on), ~ (flux) or - (off)
svc_cond(dir, conds) ==
    [i \in DOMAIN conds |->
        <<CASE cond_get(dir, conds[i]) = "on"   -> "+"
            [] cond_get(dir, conds[i]) = "flux" -> "~"
            [] cond_get(dir, conds[i]) = "off"  -> "-",
          conds[i]>>]

\* one line of do_cond_show: the aggregate and the marked list
do_cond_show(dir, conds) ==
    [agg |-> CondGetAgg(dir, conds, "on"), marks |-> svc_cond(dir, conds)]

RECURSIVE SeqsUpTo(_, _)
SeqsUpTo(S, n) ==
    IF n = 0 THEN {<<>>}
    ELSE SeqsUpTo(S, n - 1) \cup {Append(q, x) : q \in SeqsUpTo(S, n - 1), x \in S}

\* what initctl cond set | clear | get is called with
Args == SeqsUpTo(Pieces, MaxArg) \cup {COND_USR \o a : a \in SeqsUpTo(Pieces, MaxArg)}

\* the condition files that may exist, those of finit's own and the user's
CondNames == {<<"usr/", "a">>, <<"pid/a">>, <<"net/up">>}

UNCHANGED_daemon ==
    UNCHANGED <<svc, procs, nextpid, pid_max, cond, runlevel, sm, work, diverged, tr,
                nl_defidx>>

\* the command before, prev, set or cleared the condition that this command
\* is about, and succeeded: the two operations; or <<>>
Again(prev, arg, op) ==
    IF /\ prev # <<>> /\ prev[1][2] \in {"COND_SET", "COND_CLR"}
       /\ prev[1][3].exit = 0
       /\ SkipUsr(prev[1][1]) = SkipUsr(arg)
    THEN <<prev[1][2], op>>
    ELSE <<>>

\* initctl cond set | clear | get ARG
InitctlCond ==
    \E arg \in Args, op \in condop_t, io \in {"ok", "fail"}, verbose \in BOOLEAN :
       \E r \in {do_cond_act(conddir, arg, op, io, verbose)} :
          /\ op = "COND_GET" => io = "ok"
          /\ op # "COND_GET" => ~verbose
          /\ conddir' = r.dir
          /\ ev' = << <<arg, op, [exit |-> r.exit, out |-> r.out]>> >>
          /\ test' = [test EXCEPT !.cls = Again(ev, arg, op)]
          /\ UNCHANGED_daemon

\* initctl cond show, for a service with the condition list conds
InitctlCondShow ==
    /\ \E conds \in SeqsUpTo(CondNames, MaxConds) \ {<<>>} :
          ev' = << <<conds, "cond_show", do_cond_show(conddir, conds)>> >>
    /\ conddir' = conddir
    /\ test' = [test EXCEPT !.cls = <<>>]
    /\ UNCHANGED_daemon

InitCond ==
    /\ svc = (1 :> NewSvc("service", FALSE, {2}, 0))
    /\ cond = (1 :> "on")
    /\ pid_max = MaxPid
    /\ procs = <<>> /\ nextpid = 2 /\ runlevel = 2 /\ sm = SmIdle /\ work = FALSE
    /\ ev = <<>> /\ diverged = FALSE /\ tr = <<>> /\ test = NoTest
    /\ \E D \in SUBSET CondNames : conddir \in [D -> {"on", "flux"}]
    /\ nl_defidx = 0

NextCond == InitctlCond \/ InitctlCondShow

SpecCond == InitCond /\ [][NextCond]_vars

-----------------------------------------------------------------------------
(* Two daemons, each behind one condition of the netlink plugin: both       *)
(* conditions are cleared once the daemons run, and set again one by one    *)

\* X waits for net/eth0/up, Y for net/eth0/running
NetConds == (1 :> "net/eth0/up") @@ (2 :> "net/eth0/running")

\* nl_link, RTM_DELLINK: net_cond_set(ifname, "up", 0) and
\* net_cond_set(ifname, "running", 0) in one callback; the sweep is deferred
TestCondClear(e) ==
    /\ ~diverged
    /\ test.n = 0
    /\ ~work
    /\ \A s \in DOMAIN svc : svc[s].state = "running" /\ svc[s].pid \in DOMAIN procs
    /\ Handle([World EXCEPT !.cond = [s \in DOMAIN svc |-> "off"], !.work = TRUE], e)
    /\ test' = [n      |-> 1,
                oldpid |-> [x \in DOMAIN svc |-> svc[x].pid],
                cls    |-> <<>>]

\* nl_link, RTM_NEWLINK: one of the two conditions is set again, the first
\* of them in a later turn of the event loop than the sweep of the clear
TestCondSet(e) ==
    /\ ~diverged
    /\ test.n >= 1
    /\ test.n > 1 \/ ~work
    /\ \E s \in DOMAIN svc :
          /\ cond[s] = "off"
          /\ Handle([World EXCEPT !.cond[s] = "on", !.work = TRUE], e)
    /\ test' = [test EXCEPT !.n = @ + 1]

InitNet ==
    /\ \E hx, hy \in BOOLEAN :
          svc = (1 :> NewSvc("service", hx, {2}, 0)) @@ (2 :> NewSvc("service", hy, {2}, 0))
    /\ cond = [s \in DOMAIN NetConds |-> "on"]
    /\ pid_max = MaxPidTest
    /\ InitGlobals

NextNet ==
    \/ TestCondClear(PairEnv)
    \/ TestCondSet(PairEnv)
    \/ Terminated(PairEnv)
    \/ ServiceTimeout(PairEnv)
    \/ ServiceWorker(PairEnv)

SpecNet == InitNet /\ [][NextNet]_vars

-----------------------------------------------------------------------------
(* initctl start | stop | restart | reload | signal                          *)

\* commands one test issues
MaxCmds == 1

\* arguments of one command line
MaxArgc == 2

\* the names the registered services go by
SvcName == (1 :> "a") @@ (2 :> "b")

\* what the command line names: nothing, a registered service or none
NameArgs == {"", "a", "c"}

\* the signal argument: a word, or a numeral, which the model holds as a number
Word(a) == [word |-> a, num |-> 0]

Numeral(n) == [word |-> "#", num |-> n]

SigArgs ==
    {Word(a) : a \in {"", "HUP", "SIGKILL", "FOO"}}
    \cup {Numeral(n) : n \in {0, 1, 31, 32}}

ByName(w, name) == {s \in DOMAIN w.svc : SvcName[s] = name}

\* str2sig(): the number of a signal by its name, with or without SIG
str2sig(a) ==
    CASE a.word \in {"HUP", "SIGHUP"} -> 1
      [] a.word \in {"KILL", "SIGKILL"} -> 9
      [] a.word \in {"TERM", "SIGTERM"} -> 15
      [] OTHER -> -1

\* strtonum(a, 1, 31, &errstr): errstr is set unless a is a numeral in range
StrtonumErr(a) == ~(a.word = "#" /\ a.num >= 1 /\ a.num <= 31)

SigOf(signo) ==
    CASE signo = 1 -> "SIGHUP"
      [] signo = 9 -> "SIGKILL"
      [] signo = 15 -> "SIGTERM"
      [] OTHER -> "none"

\* the client is gone: ERRX has ended it with a code
Exited(w) == w.ev # <<>> /\ w.ev[Len(w.ev)][2] = "exit"

ERRX(w, code) == Ret(Emit(w, 0, "exit", code), code)

\* finit serves one request of the control socket and answers ack (0) or nack
ApiServe(w, s, cmd, signo) ==
    CASE cmd = "INIT_CMD_SVC_QUERY" -> Ret(w, 0)
      [] cmd = "INIT_CMD_START_SVC" ->
             Ret(service_step(svc_unblock(w, s), s, OutcomeOk), 0)
      [] cmd = "INIT_CMD_STOP_SVC" ->
             Ret(service_step(svc_stop(w, s), s, OutcomeOk), 0)
      [] cmd \in {"INIT_CMD_RESTART_SVC", "INIT_CMD_RELOAD_SVC"} ->
             Ret(service_step(svc_mark_dirty(IF svc_is_blocked(w, s)
                                             THEN svc_unblock(w, s) ELSE w, s),
                              s, OutcomeOk), 0)
      [] cmd = "INIT_CMD_SIGNAL" ->
             IF w.svc[s].pid > 1 /\ SigOf(signo) # "none"
             THEN Ret(kill(w, s, w.svc[s].pid, SigOf(signo)), 0)
             ELSE Ret(w, 0)

ApiByName(w, name, cmd, signo) ==
    IF ByName(w, name) = {} THEN Ret(w, 1)
    ELSE ApiServe(w, CHOOSE s \in ByName(w, name) : TRUE, cmd, signo)

\* client_send(): the request reaches finit and is served, or the socket
\* fails and nothing is sent
client_send(w, name, cmd, signo, io) ==
    IF io # "ok" THEN Ret(w, 1)
    ELSE ApiByName(Emit(w, name, cmd, signo), name, cmd, signo)

\* mutant: the command is sent whatever the query answers
DoStartstopNoQuery(w, cmd, arg, io) ==
    IF arg = "" THEN ERRX(w, 2)
    ELSE client_send(w, arg, cmd, 0, io[2])

\* do_startstop once the query is answered
Queried(w, cmd, arg, io) ==
    IF w.ret # 0 THEN ERRX(w, 69) ELSE client_send(w, arg, cmd, 0, io[2])

do_startstop(w, cmd, arg, io) ==
    IF arg = "" THEN ERRX(w, 2)
    ELSE Queried(client_send(w, arg, "INIT_CMD_SVC_QUERY", 0, io[1]), cmd, arg, io)

do_start(w, arg, io) == do_startstop(w, "INIT_CMD_START_SVC", arg, io)

do_stop(w, arg, io) == do_startstop(w, "INIT_CMD_STOP_SVC", arg, io)

\* do_reload without a name asks for the reload of the configuration
do_reload(w, arg, io, cls) ==
    IF arg = ""
    THEN IF io[2] # "ok" THEN Ret(w, 1)
         ELSE Ret(service_reload_dynamic(Emit(w, "", "INIT_CMD_RELOAD", 0), OkMap, cls), 0)
    ELSE do_startstop(w, "INIT_CMD_RELOAD_SVC", arg, io)

RestartChecked(w, arg) == IF ~Exited(w) /\ w.ret # 0 THEN ERRX(w, 7) ELSE w

do_restart(w, arg, io) == RestartChecked(do_startstop(w, "INIT_CMD_RESTART_SVC", arg, io), arg)

SignalSend(w, argv, io, signo) ==
    IF signo = -1
    THEN IF StrtonumErr(argv[2]) THEN ERRX(w, 65)
         ELSE client_send(w, argv[1], "INIT_CMD_SIGNAL", argv[2].num, io[2])
    ELSE client_send(w, argv[1], "INIT_CMD_SIGNAL", signo, io[2])

\* do_signal once the query is answered
SignalQueried(w, argv, io) ==
    IF w.ret # 0 THEN ERRX(w, 69) ELSE SignalSend(w, argv, io, str2sig(argv[2]))

do_signal(w, argv, io) ==
    IF Len(argv) # 2 THEN ERRX(w, 2)
    ELSE SignalQueried(client_send(w, argv[1], "INIT_CMD_SVC_QUERY", 0, io[1]), argv, io)

Cmds == {"start", "stop", "restart", "reload", "signal"}

Cb(w, cmd, arg, io, cls) ==
    CASE cmd = "start" -> do_start(w, arg, io)
      [] cmd = "stop" -> do_stop(w, arg, io)
      [] cmd = "restart" -> do_restart(w, arg, io)
      [] cmd = "reload" -> do_reload(w, arg, io, cls)

BitOr(a, b) == IF a # 0 \/ b # 0 THEN 1 ELSE 0

\* cmd_parse: rc |= cb(argv[j]) for each argument, until one ends the client
RECURSIVE CbEach(_, _, _, _, _, _)
CbNext(w, cmd, argv, io, cls, rc) == CbEach(w, cmd, argv, io, cls, BitOr(rc, w.ret))

CbEach(w, cmd, argv, io, cls, rc) ==
    IF Exited(w) THEN w
    ELSE IF argv = <<>> THEN Ret(w, rc)
    ELSE CbNext(Cb(w, cmd, Head(argv), io, cls), cmd, Tail(argv), io, cls, rc)

\* cmd_parse: a command without argument calls cb(NULL), the signal command
\* gets the whole argument vector
cmd_parse(w, cmd, argv, io, cls) ==
    IF cmd = "signal" THEN do_signal(w, argv, io)
    ELSE IF argv = <<>> THEN Cb(w, cmd, "", io, cls)
    ELSE CbEach(w, cmd, argv, io, cls, 0)

\* main: the exit code of initctl is what cmd_parse returns
Returned(w) == IF Exited(w) THEN w ELSE Emit(w, 0, "exit", w.ret)

Main(w, cmd, argv, io, cls) == Returned(cmd_parse(w, cmd, argv, io, cls))

Argvs(cmd) ==
    IF cmd = "signal"
    THEN {<<>>} \cup {<<n>> : n \in NameArgs}
         \cup {<<n, g>> : n \in NameArgs, g \in SigArgs}
         \cup {<<n, Word("HUP"), Word("HUP")>> : n \in NameArgs}
    ELSE SeqsUpTo(NameArgs, MaxArgc)

\* the socket at the query and at the request that follows it: it works, it
\* fails at the request, or it fails from the start
SocketIo == {<<"ok", "ok">>, <<"ok", "fail">>, <<"fail", "fail">>}

\* one run of initctl; the command line is noted ahead of what it did
Initctl(e) ==
    /\ ~diverged
    /\ test.n < MaxCmds
    /\ \E cmd \in Cmds, io \in SocketIo :
       \E argv \in Argvs(cmd), cls \in {SameMap} :
       \E w \in {Main(Emit(World, argv, "initctl", [cmd |-> cmd, io |-> io]), cmd, argv, io, cls)} : Handle(w, e)
    /\ test' = [test EXCEPT !.n = @ + 1]

InitCtl == InitPair /\ pid_max = MaxPid

NextCtl ==
    \/ Initctl(PairEnv)
    \/ Terminated(PairEnv)
    \/ ServiceTimeout(PairEnv)
    \/ ServiceWorker(PairEnv)

SpecCtl == InitCtl /\ [][NextCtl]_vars

-----------------------------------------------------------------------------
(* service_kill, the callback of the forced-kill timer, on every record it  *)
(* can be handed                                                             *)

\* the pid field of the record: -1 is what a failed fork leaves, 0 a
\* collected process, 1 finit itself
KillPids == -1 .. MaxPid

InitKillTimer ==
    /\ \E k \in Kinds, st \in SvcStates, pid \in KillPids :
          svc = (1 :> [NewSvc(k[1], k[2], {2}, 0) EXCEPT
                          !.state = st, !.pid = pid, !.timer_cb = "kill",
                          !.timer_on = TRUE, !.timeout = SVC_TERM_TIMEOUT])
    /\ \E P \in SUBSET (2 .. MaxPid) : procs = [p \in P |-> [NoProc EXCEPT !.owner = 1]]
    /\ cond \in [{1} -> CondStates]
    /\ pid_max = MaxPid
    /\ nextpid = 2
    /\ runlevel = 2
    /\ sm = SmIdle
    /\ work = FALSE
    /\ ev = <<>>
    /\ diverged = FALSE
    /\ tr = <<>>
    /\ test = NoTest
    /\ conddir = <<>>
    /\ nl_defidx = 0

NextKillTimer ==
    \/ ServiceTimeout(PairEnv)
    \/ Terminated(PairEnv)

SpecKillTimer == InitKillTimer /\ [][NextKillTimer]_vars

-----------------------------------------------------------------------------
(* service_completed over run commands and tasks that wait for a condition, *)
(* some of them for the hooks svc-up and system-up                          *)

\* the condition lists of the configuration, as what is between < and >: a
\* hook, a user condition beside a hook, and names a hook's name is part of
CondLists ==
    {<<>>, <<"usr/a">>, <<"hook/svc/up">>, <<"hook/sys/up">>,
     <<"usr/a", ",", "hook/svc/up">>, <<"usr/", "hook/sys/up">>, <<"hook/svc/up", "d">>}

\* finit asks whether the run commands and tasks of the runlevel are done
TestCompleted(e) ==
    /\ ~diverged
    /\ Handle(Emit(World, 0, "service_completed", service_completed(World)), e)
    /\ UNCHANGED test

\* a condition list that is not empty may be off; the hooks' conditions are
\* not asserted before the bootstrap is over
InitHooks ==
    /\ \E t \in {"run", "task", "service"}, c \in CondLists, l \in {{2}, {3}},
          u \in {"run", "task"} :
          svc = (1 :> [NewSvc(t, FALSE, l, 0) EXCEPT !.cond = c])
                @@ (2 :> NewSvc(u, FALSE, {2}, 0))
    /\ cond \in [{1, 2} -> {"on", "off"}]
    /\ cond[2] = "on"
    /\ svc[1].cond = <<>> => cond[1] = "on"
    /\ (strstr(svc[1].cond, <<"hook/svc/up">>) \/ strstr(svc[1].cond, <<"hook/sys/up">>))
          => cond[1] = "off"
    /\ pid_max = MaxPidTest
    /\ InitGlobals

\* a start succeeds, or the binary is not found and the service is marked
\* missing
HooksEnv ==
    [cap |-> MaxCnt,
     outcomes |-> {OutcomeOk,
                   [fork |-> "ok", norespawn |-> FALSE, missing |-> TRUE, status |-> 0]}]

NextHooks ==
    \/ TestCompleted(HooksEnv)
    \/ ServiceMonitor(HooksEnv)
    \/ ServiceTimeout(HooksEnv)
    \/ ServiceWorker(HooksEnv)

SpecHooks == InitHooks /\ [][NextHooks]_vars

-----------------------------------------------------------------------------
(* An inetd service and the connections it dispatches; service_step called  *)
(* on one service at a time.  A call whose re-entry loop does not settle is *)
(* kept whatever its counters have reached                                  *)

\* connections the listener accepts
MaxConns == 2

\* the ids the connection records get: none is used twice
ConnId == 2 + test.n

\* the listener accepts a connection: a child record is created halted, the
\* listener is blocked busy while a wait-style (UDP) connection is served,
\* and the child is stepped
InetdConn(e) ==
    /\ ~diverged
    /\ test.n < MaxConns
    /\ 1 \in DOMAIN svc /\ svc[1].type = "inetd" /\ svc[1].state = "running"
    /\ svc[1].block = "none"
    /\ \E busy \in BOOLEAN, o \in {x \in e.outcomes : x.status = 0} :
       \E w \in {service_step(
                    [World EXCEPT
                        !.svc = (ConnId :> NewSvc("inetd_conn", FALSE, svc[1].runlevels, 1))
                                @@ [@ EXCEPT ![1].block = IF busy THEN "busy" ELSE "none"]],
                    ConnId, o)} :
          Handle(w, e)
    /\ test' = [test EXCEPT !.n = @ + 1]

\* service_step(svc) for one service, as service_step_all and the callbacks
\* call it; its return value is noted
TestStep(e) ==
    /\ ~diverged
    /\ \E s \in DOMAIN svc :
       \E o \in OutcomesOf(e, s) :
       \E w \in {service_step(World, s, o)} :
          /\ w.diverged \/ Capped(w, e)
          /\ Commit(Emit(w, s, "service_step", w.ret))
    /\ UNCHANGED test

\* service_monitor() with the answer of its service_step() on record
TestMonitor(e) ==
    /\ ~diverged
    /\ \E p \in {q \in DOMAIN procs : q > 1 /\ svc_find_by_pid(World, q) # {}} :
       \E s \in {Min(svc_find_by_pid(World, p))} :
       \E o \in OutcomeMaps(e), cls \in ReloadMaps(sm.reload) :
       \E w \in {service_step(Set(Reaped(p), s, "pid", 0), s, o[s])} :
          /\ o = OkMap \/ ReadsOutcome(service_monitor(Reaped(p), p, OkMap, cls))
          /\ Handle(sm_step(Emit(w, s, "service_step", w.ret), o, cls), e)
    /\ UNCHANGED test

InitInetd ==
    /\ svc = (1 :> NewSvc("inetd", FALSE, {2}, 0))
    /\ cond = [s \in 1 .. (MaxConns + 1) |-> "on"]
    /\ pid_max = MaxPidTest
    /\ InitGlobals

InetdEnv ==
    [cap |-> MaxCnt,
     outcomes |-> {OutcomeOk,
                   [fork |-> "fail", norespawn |-> FALSE, missing |-> FALSE, status |-> 0]}]

NextInetd ==
    \/ InetdConn(InetdEnv)
    \/ TestStep(InetdEnv)
    \/ TestMonitor(InetdEnv)
    \/ ServiceTimeout(InetdEnv)
    \/ ServiceWorker(InetdEnv)
    \/ Runlevel(InetdEnv)

SpecInetd == InitInetd /\ [][NextInetd]_vars

-----------------------------------------------------------------------------
(* The whole supervisor with service_step called on its own as well, as the  *)
(* control socket and the plugins call it                                    *)
NextStep ==
    \/ TestStep(Env)
    \/ ServiceMonitor(Env)
    \/ ServiceTimeout(Env)
    \/ ServiceWorker(Env)
    \/ CondChange(Env)
    \/ Reload(Env)
    \/ Runlevel(Env)

SpecStep == Init /\ [][NextStep]_vars

-----------------------------------------------------------------------------
(* service_unregister called on a service of any kind at any point of its   *)
(* life, with the timer slot of the record that svc_del() frees on record    *)
TestUnregister(e) ==
    /\ ~diverged
    /\ \E s \in DOMAIN svc :
       \E o \in OutcomesOf(e, s) :
       \E w \in {ServiceUnregisterSwitch(World, s, o)} :
          Handle(Emit(svc_del(w, s), s, "svc_del", w.svc[s].timer_cb), e)
    /\ UNCHANGED test

NextUnregister ==
    \/ TestUnregister(Env)
    \/ ServiceMonitor(Env)
    \/ ServiceTimeout(Env)
    \/ ServiceWorker(Env)
    \/ CondChange(Env)
    \/ Runlevel(Env)

SpecUnregister == Init /\ [][NextUnregister]_vars

-----------------------------------------------------------------------------
(* A daemon that crashes over and over, with the callback of every timer    *)
(* that expires on record                                                    *)
TestTimeout(e) ==
    /\ ~diverged
    /\ \E s \in DOMAIN svc :
       \E o \in OutcomesOf(e, s) :
          /\ svc[s].timer_on
          /\ o = OutcomeOk \/ ReadsOutcome(service_timeout_cb(World, s, OutcomeOk))
          /\ \E w \in {service_timeout_cb(World, s, o)} :
                Handle(Emit(w, s, "service_timeout_cb", svc[s].timer_cb), e)
    /\ UNCHANGED test

NextRetry ==
    \/ ServiceMonitor(RespawnEnv)
    \/ TestTimeout(RespawnEnv)
    \/ ServiceWorker(RespawnEnv)
    \/ CondChange(RespawnEnv)

SpecRetry == InitRespawn /\ [][NextRetry]_vars

-----------------------------------------------------------------------------
(* The netlink plugin: link and route messages of the kernel become the     *)
(* conditions net/IFNAME/exist, net/IFNAME/up, net/IFNAME/running and        *)
(* net/route/default                                                         *)

\* the messages one run takes
MaxNl == 2

\* the longest interface name the kernel is taken to send
MaxIfLen == 17

IFNAMSIZ == 16

\* a string is the sequence of its characters
Str(n) == [i \in 1..n |-> "e"]

\* strlcpy(dst, src, size): at most size - 1 characters are copied
strlcpy(src, size) == SubSeq(src, 1, IF Len(src) < size - 1 THEN Len(src) ELSE size - 1)

\* strnlen(s, maxlen)
strnlen(str, maxlen) == IF Len(str) < maxlen THEN Len(str) ELSE maxlen

isspace(c) == c \in {" ", "\t"}

\* mutant: every interface name is taken
ValidateIfnameAny(ifname) == 0

\* 1 when the name is not one to build a condition from, 0 when it is
validate_ifname(ifname) ==
    IF ifname = <<>> THEN 1
    ELSE IF strnlen(ifname, IFNAMSIZ) = IFNAMSIZ THEN 1
    ELSE IF ifname = <<".">> \/ ifname = <<".", ".">> THEN 1
    ELSE IF \E i \in DOMAIN ifname : ifname[i] = "/" \/ ifname[i] = ":" \/ isspace(ifname[i])
    THEN 1
    ELSE 0

\* the plugin's view while one callback runs: the condition files, nl_defidx
\* and nl_ifdown
NlState(dir, defidx, ifdown) == [dir |-> dir, defidx |-> defidx, ifdown |-> ifdown]

\* cond_set(): the condition is asserted
cond_set(st, name) == [st EXCEPT !.dir = (name :> "on") @@ @]

\* cond_clear(): the condition is deasserted
cond_clear(st, name) == [st EXCEPT !.dir = [q \in DOMAIN @ \ {name} |-> @[q]]]

\* snprintf(msg, sizeof(msg), "net/%s/%s", ifname, cond)
NetCond(ifname, c) == <<"net/">> \o ifname \o <<"/", c>>

net_cond_set(st, ifname, c, set) ==
    IF set # 0 THEN cond_set(st, NetCond(ifname, c)) ELSE cond_clear(st, NetCond(ifname, c))

NET_ROUTE_DEFAULT == <<"net/", "r", "o", "u", "t", "e", "/", "default">>

\* idx is what if_nametoindex() answers, 0 with ENODEV
nl_check_default(st, idx) ==
    IF (st.defidx > 0 /\ st.defidx = idx) \/ idx = 0
    THEN [st EXCEPT !.ifdown = 1] ELSE st

\* i->ifi_flags & IFF_UP, i->ifi_flags & IFF_RUNNING
Flag(flags, f) == IF f \in flags THEN 1 ELSE 0

NlNewlink(st, ifname, flags, idx) ==
    Bind(net_cond_set(net_cond_set(net_cond_set(st, ifname, "exist", 1),
                                   ifname, "up", Flag(flags, "IFF_UP")),
                      ifname, "running", Flag(flags, "IFF_RUNNING")),
         LAMBDA st1 :
             IF Flag(flags, "IFF_UP") = 0 \/ Flag(flags, "IFF_RUNNING") = 0
             THEN nl_check_default(st1, idx) ELSE st1)

NlDellink(st, ifname, idx) ==
    nl_check_default(
        net_cond_set(net_cond_set(net_cond_set(st, ifname, "exist", 0), ifname, "up", 0),
                     ifname, "running", 0),
        idx)

RECURSIVE NlLinkEach(_, _, _)
\* the loop over the attributes of the message, those of type IFLA_IFNAME
NlLinkEach(st, m, names) ==
    IF names = <<>> THEN st
    ELSE NlLinkEach(
             IF validate_ifname(strlcpy(Head(names), IFNAMSIZ + 1)) # 0 THEN st
             ELSE CASE m.type = "RTM_NEWLINK" ->
                           NlNewlink(st, strlcpy(Head(names), IFNAMSIZ + 1), m.flags, m.ifindex)
                    [] m.type = "RTM_DELLINK" ->
                           NlDellink(st, strlcpy(Head(names), IFNAMSIZ + 1), m.ifindex)
                    [] OTHER -> st,
             m, Tail(names))

nl_link(st, m) == IF m.bad THEN st ELSE NlLinkEach(st, m, m.names)

nl_route(st, m) ==
    IF m.bad THEN st
    ELSE IF (m.dst = 0 /\ m.plen = 0) /\ (m.gw # 0 \/ m.idx # 0)
    THEN IF m.type = "RTM_DELROUTE"
         THEN [cond_clear(st, NET_ROUTE_DEFAULT) EXCEPT !.defidx = 0]
         ELSE [cond_set(st, NET_ROUTE_DEFAULT) EXCEPT !.defidx = m.idx]
    ELSE st

RECURSIVE nl_parse(_, _)
\* the messages of one recv(), each by its type
nl_parse(st, msgs) ==
    IF msgs = <<>> THEN st
    ELSE nl_parse(CASE Head(msgs).type \in {"RTM_NEWROUTE", "RTM_DELROUTE"} ->
                           nl_route(st, Head(msgs))
                    [] Head(msgs).type \in {"RTM_NEWLINK", "RTM_DELLINK"} ->
                           nl_link(st, Head(msgs))
                    [] OTHER -> st,
                  Tail(msgs))

\* nl_resync(0): the kernel is asked for its routes; dump is its answer
nl_resync(st, dump) == nl_parse(st, dump)

\* nl_callback() from "if (nl_ifdown)" on
NlIfdown(st, dump) ==
    IF st.ifdown # 0
    THEN IF st.defidx > 0
         THEN Bind(nl_resync([st EXCEPT !.defidx = 0], dump), LAMBDA st1 :
                  IF st1.defidx <= 0
                  THEN [cond_clear(st1, NET_ROUTE_DEFAULT) EXCEPT !.defidx = 0, !.ifdown = 0]
                  ELSE [st1 EXCEPT !.ifdown = 0])
         ELSE [st EXCEPT !.ifdown = 0]
    ELSE st

nl_callback(st, msgs, dump) == NlIfdown(nl_parse(st, msgs), dump)

\* the interface names the kernel may send: empty, ".", "..", short ones with
\* and without '.', '/', ':' and whitespace, and long ones around IFNAMSIZ
IfNames ==
    {<<>>, <<".">>, <<".", ".">>, <<"e">>, <<"e", ".">>,
     <<"e", "/">>, <<"/">>, <<"e", ":">>, <<"e", " ">>, <<"\t", "e">>,
     Str(IFNAMSIZ - 1), Str(IFNAMSIZ), Str(MaxIfLen)}

LinkMsgs ==
    {[type |-> t, bad |-> b, names |-> ns, flags |-> fl, ifindex |-> ix] :
        t \in {"RTM_NEWLINK", "RTM_DELLINK"}, b \in BOOLEAN,
        ns \in {<<>>} \cup {<<n>> : n \in IfNames},
        fl \in SUBSET {"IFF_UP", "IFF_RUNNING"}, ix \in {0, 2}}
    \ {m \in [type : {"RTM_NEWLINK", "RTM_DELLINK"}, bad : BOOLEAN,
               names : {<<>>} \cup {<<n>> : n \in IfNames},
               flags : SUBSET {"IFF_UP", "IFF_RUNNING"}, ifindex : {0, 2}] :
          \/ m.type = "RTM_DELLINK" /\ m.flags # {}
          \/ m.bad /\ (m.names # <<<<"e">>>> \/ m.flags # {} \/ m.ifindex # 0)}

RouteMsgs ==
    {[type |-> t, bad |-> b, dst |-> d, plen |-> pl, gw |-> g, idx |-> ix] :
        t \in {"RTM_NEWROUTE", "RTM_DELROUTE"}, b \in BOOLEAN,
        d \in {0, 1}, pl \in {0, 24}, g \in {0, 1}, ix \in {0, 2}}
    \ {m \in [type : {"RTM_NEWROUTE", "RTM_DELROUTE"}, bad : BOOLEAN, dst : {0, 1},
               plen : {0, 24}, gw : {0, 1}, idx : {0, 2}] :
          m.bad /\ (m.dst # 0 \/ m.plen # 0 \/ m.gw # 1 \/ m.idx # 2)}

\* what the kernel answers to RTM_GETROUTE: no route, or the routes it has
Dumps ==
    {<<>>} \cup {<<m>> : m \in {r \in RouteMsgs : /\ r.type = "RTM_NEWROUTE" /\ ~r.bad
                                                   /\ r.dst = 0 /\ r.plen = 0 /\ r.gw = 1}}

\* the descriptor of the plugin is readable: one message is taken
NlCallback ==
    /\ test.n < MaxNl
    /\ \E m \in LinkMsgs \cup RouteMsgs, dump \in Dumps :
       \E st \in {nl_callback(NlState(conddir, nl_defidx, 0), <<m>>, dump)} :
          /\ dump = <<>> \/ NlIfdown(nl_parse(NlState(conddir, nl_defidx, 0), <<m>>),
                                     <<>>) # st
          /\ conddir' = st.dir
          /\ nl_defidx' = st.defidx
          /\ ev' = << <<m, "nl_callback", dump>> >>
    /\ test' = [test EXCEPT !.n = @ + 1]
    /\ UNCHANGED <<svc, procs, nextpid, pid_max, cond, runlevel, sm, work, diverged, tr>>

InitNetlink ==
    /\ svc = <<>>
    /\ cond = <<>>
    /\ pid_max = MaxPid
    /\ InitGlobals

NextNetlink == NlCallback

SpecNetlink == InitNetlink /\ [][NextNetlink]_vars

-----------------------------------------------------------------------------
(* Properties *)

\* C1: in every reachable state every registered service has pid = 0 or
\* pid > 1; no service is left with pid 1 or a negative pid
C1_PidValid == \A s \in DOMAIN svc : svc[s].pid = 0 \/ svc[s].pid > 1

OwnProcs(s) == {p \in DOMAIN procs : procs[p].owner = s}

\* the event loop is at rest: no work item is scheduled and no timer is armed
Quiet == ~work /\ \A s \in DOMAIN svc : ~svc[s].timer_on

\* the daemon runs again: one process, and not the one the test killed first
Recovered ==
    /\ svc[1].state = "running"
    /\ svc[1].pid > 1
    /\ svc[1].pid # test.oldpid[1]
    /\ OwnProcs(1) = {svc[1].pid}

\* C2 as stated: however many times the daemon's process has been killed,
\* once the event loop is at rest the daemon is running again with a new pid
\* and exactly one process
C2_KilledAnyTimes == (test.n > 0 /\ Quiet) => Recovered

\* C2: a daemon whose process has been killed at most RESPAWN_MAX times is,
\* once the event loop is at rest, running again with a new pid and exactly
\* one process
C2_KilledRecovers == (test.n \in 1..RESPAWN_MAX /\ Quiet) => Recovered

C2_Witness == test.n = RESPAWN_MAX /\ Quiet /\ Recovered

\* service s has event `what` among the events e of a handler
Happened(e, s, what) == \E i \in DOMAIN e : e[i][1] = s /\ e[i][2] \in what

NoTimer(r) == r.timer_cb = "none" /\ ~r.timer_on

C3_Step(s) ==
    /\ (svc[s].block # "crashing" /\ svc'[s].block = "crashing")
           => svc[s].restart_cnt >= RESPAWN_MAX
    /\ svc'[s].block = "crashing"
           => svc'[s].state = "halted" /\ svc'[s].pid = 0 /\ NoTimer(svc'[s])
    /\ svc[s].block = "crashing"
           => svc'[s].block = "crashing" /\ ~Happened(ev', s, {"start", "fork"})

\* C3: a daemon is marked crashing only after RESPAWN_MAX respawn attempts;
\* a daemon marked crashing is halted with no timer pending, and no step of
\* the supervisor starts it or takes the mark away
C3_CrashedStaysHalted == [][\A s \in DOMAIN svc \cap DOMAIN svc' : C3_Step(s)]_vars

C3_Witness == svc[1].block = "crashing" /\ svc[1].state = "halted" /\ Quiet

\* C4: restart_cnt never exceeds RESPAWN_MAX, and a service whose
\* restart_cnt equals RESPAWN_MAX is marked crashing
C4_RestartCntBounded ==
    \A s \in DOMAIN svc :
        /\ svc[s].restart_cnt <= RESPAWN_MAX
        /\ svc[s].restart_cnt = RESPAWN_MAX => svc[s].block = "crashing"

KillTimerArmed(s) == svc[s].timer_cb = "kill" /\ svc[s].timer_on

\* the forced-kill timer has fired: SIGKILL is on its way to the process
KillSent(s) ==
    /\ svc[s].pid \in DOMAIN procs
    /\ procs[svc[s].pid].kill
    /\ NoTimer(svc[s])

\* C5 as stated: a service in state stopping has the forced-kill timer armed
C5_StoppingHasKillTimer ==
    \A s \in DOMAIN svc : svc[s].state = "stopping" => KillTimerArmed(s)

\* C5: a service in state stopping has the forced-kill timer armed until
\* that timer fires; from then on its process has been sent SIGKILL and no
\* timer is armed
C5_StoppingKillTimerOrKilled ==
    \A s \in DOMAIN svc : svc[s].state = "stopping" => KillTimerArmed(s) \/ KillSent(s)

C5_Witness == \E s \in DOMAIN svc : svc[s].state = "stopping" /\ KillSent(s)

\* C6: the timer slot of a service holds nothing or one of the two callbacks,
\* it holds one exactly when the timer is armed, and no timer is initialised
\* while one is pending
C6_OneTimer ==
    /\ \A s \in DOMAIN svc :
          /\ svc[s].timer_cb \in {"none", "kill", "retry"}
          /\ svc[s].timer_on <=> svc[s].timer_cb # "none"
    /\ \A i \in DOMAIN ev : ev[i][2] # "timer_reinit"

\* a second timer was asked for while one was pending, and was refused
C6_Witness ==
    \E s \in DOMAIN svc :
        /\ Happened(ev, s, {"timer_busy"})
        /\ svc[s].timer_cb = "retry"
        /\ svc[s].timer_on

\* svc_enabled() of a record r in runlevel level
EnabledIn(r, level) == level \in r.runlevels /\ r.dirty # -1 /\ r.block = "none"

\* event <<s, what, pid>> is in e, and none of `before` for s and pid precedes it
SentFirst(e, s, pid, what, before) ==
    \E i \in DOMAIN e :
        /\ e[i] = <<s, what, pid>>
        /\ \A j \in 1..(i - 1) : ~(e[j][1] = s /\ e[j][3] = pid /\ e[j][2] \in before)

\* service s sent one of the signals `what` to process pid
SentTo(e, s, pid, what) ==
    \E i \in DOMAIN e : e[i][1] = s /\ e[i][3] = pid /\ e[i][2] \in what

\* the process of s is not collected in this step
Survives(s) == svc[s].pid \in DOMAIN procs /\ svc[s].pid \in DOMAIN procs'

Stays(s, st) == svc[s].state = st /\ svc'[s].state = st /\ svc'[s].pid = svc[s].pid

Goes(s, from, to) == svc[s].state = from /\ svc'[s].state = to

C7_Step(s) ==
    /\ (Goes(s, "running", "waiting") /\ Survives(s))
           => /\ svc'[s].pid = svc[s].pid
              /\ SentTo(ev', s, svc[s].pid, {"SIGSTOP"})
              /\ procs'[svc[s].pid].stopped
              /\ ~SentTo(ev', s, svc[s].pid, {"SIGTERM", "SIGKILL"})
    /\ (Stays(s, "waiting") /\ Survives(s))
           => ~SentTo(ev', s, svc[s].pid, {"SIGTERM", "SIGKILL"})
    /\ (Goes(s, "waiting", "running") /\ Survives(s))
           => /\ svc'[s].pid = svc[s].pid
              /\ SentTo(ev', s, svc[s].pid, {"SIGCONT"})
              /\ ~procs'[svc[s].pid].stopped
              /\ ~SentTo(ev', s, svc[s].pid, {"SIGTERM", "SIGKILL"})
    /\ (svc'[s].pid \in DOMAIN procs' /\ EnabledIn(svc'[s], runlevel') /\ ~work')
           => /\ ~(svc'[s].state = "running" /\ cond'[s] = "flux")
              /\ ~(svc'[s].state = "waiting" /\ cond'[s] = "on")

\* C7: a running service with a process whose aggregate is flux is sent
\* SIGSTOP and is waiting once the scheduled sweep has run; a waiting service
\* whose aggregate is on again is sent SIGCONT and is running with the same
\* pid once the sweep has run; from the SIGSTOP to the SIGCONT it is sent
\* neither SIGTERM nor SIGKILL
C7_FluxStopsCont == [][\A s \in DOMAIN svc \cap DOMAIN svc' : C7_Step(s)]_vars

C7_Witness ==
    \E s \in DOMAIN svc :
        /\ svc[s].state = "running"
        /\ svc[s].pid \in DOMAIN procs
        /\ ev = <<<<s, "SIGCONT", svc[s].pid>>>>
        /\ ~procs[svc[s].pid].stopped

C8_StepAsStated(s) ==
    /\ svc'[s].state = "waiting"
           => svc'[s].pid \in DOMAIN procs' /\ procs'[svc'[s].pid].stopped
    /\ (svc[s].state = "waiting" /\ svc'[s].state # "waiting")
           => SentFirst(ev', s, svc[s].pid, "SIGCONT", {"SIGTERM", "SIGKILL"})

C8_Step(s) ==
    /\ (svc'[s].state = "waiting" /\ svc'[s].pid > 1)
           => svc'[s].pid \in DOMAIN procs' /\ procs'[svc'[s].pid].stopped
    /\ (svc[s].state = "waiting" /\ svc'[s].state # "waiting" /\ Survives(s))
           => SentFirst(ev', s, svc[s].pid, "SIGCONT", {"SIGTERM", "SIGKILL"})
    /\ (svc[s].state = "waiting" /\ svc'[s].state # "waiting"
          /\ svc[s].pid \in DOMAIN procs /\ svc[s].pid \notin DOMAIN procs')
           => ~SentTo(ev', s, svc[s].pid, {"SIGCONT", "SIGTERM", "SIGKILL"})

Max(S) == CHOOSE x \in S : \A y \in S : x >= y

\* the teardown marks among the first i - 1 events of e
Marks(e, i) == {j \in 1..(i - 1) : e[j][2] \in {"teardown_begin", "teardown_end"}}

\* sm.in_teardown at the time event i of this step's events e was recorded
InTeardownAt(e, i) ==
    IF Marks(e, i) = {} THEN sm.in_teardown
    ELSE e[Max(Marks(e, i))][2] = "teardown_begin"

\* the step's events e record the end of a teardown, and after it `what` of s
AfterTeardown(e, s, what) ==
    \E k \in DOMAIN e :
        /\ e[k][2] = "teardown_end"
        /\ \E i \in (k + 1)..Len(e) : e[i][1] = s /\ e[i][2] \in what

C9_Step ==
    /\ \A i \in DOMAIN ev' :
          ev'[i][2] \in {"start", "fork", "restart", "SIGHUP"} => ~InTeardownAt(ev', i)
    /\ \A s \in DOMAIN svc' :
          (/\ Happened(ev', 0, {"teardown_end"})
           /\ ~sm'.in_teardown
           /\ EnabledIn(svc'[s], runlevel')
           /\ cond'[s] = "on")
          => /\ svc'[s].state # "ready"
             /\ (s \in DOMAIN svc /\ svc[s].state = "ready" /\ sm.in_teardown)
                    => AfterTeardown(ev', s, {"start"})
             /\ (svc'[s].state = "running" /\ svc'[s].sighup /\ svc'[s].pid > 1)
                    => svc'[s].dirty = 0
             /\ (s \in DOMAIN svc /\ svc[s].state = "running" /\ svc[s].dirty = 1
                   /\ svc[s].sighup /\ svc'[s].state = "running" /\ svc'[s].pid = svc[s].pid
                   /\ svc[s].pid > 1)
                    => AfterTeardown(ev', s, {"SIGHUP"})

\* C9: while sm.in_teardown is set no service_start and no service_restart
\* is called and no SIGHUP is sent; the step that ends the teardown starts
\* every enabled service with aggregate on that was held in ready and sends
\* SIGHUP to every changed running service with sighup that was held back
C9_NoStartInTeardown == [][C9_Step]_vars

\* the retry timer of a crashed daemon has fired during a teardown: the
\* daemon is left in ready, not started
C9_Witness ==
    /\ sm.in_teardown
    /\ \E s \in DOMAIN svc :
          /\ svc[s].state = "ready"
          /\ cond[s] = "on"
          /\ EnabledIn(svc[s], runlevel)
          /\ svc[s].timer_cb = "retry"
          /\ Happened(ev, s, {"timer_init"})
          /\ ~Happened(ev, s, {"start"})

BothChanged == test.n > 0 /\ \A s \in DOMAIN svc : test.cls[s] = "changed"

C10_Step ==
    /\ (BothChanged /\ Quiet /\ sm = SmIdle)'
           => \A s \in DOMAIN svc' :
                 /\ svc'[s].state = "running"
                 /\ svc'[s].dirty = 0
                 /\ svc'[s].pid \in DOMAIN procs'
                 /\ svc'[s].sighup => svc'[s].pid = test'.oldpid[s]
                 /\ ~svc'[s].sighup => svc'[s].pid # test'.oldpid[s]
    /\ \A s \in DOMAIN svc \cap DOMAIN svc' :
          (BothChanged' /\ svc[s].dirty = 1 /\ svc'[s].dirty = 0)
          => IF svc[s].sighup
             THEN /\ SentTo(ev', s, svc[s].pid, {"SIGHUP"})
                  /\ ~SentTo(ev', s, svc[s].pid, {"SIGTERM", "SIGKILL"})
                  /\ svc'[s].state = "running"
                  /\ svc'[s].pid = svc[s].pid
             ELSE /\ SentTo(ev', s, svc[s].pid, {"SIGTERM"})
                  /\ svc'[s].state = "stopping"

\* C10: after a reload that marks two running services with aggregate on
\* changed, the one with sighup is sent SIGHUP and keeps its pid and its
\* process, the one without is sent SIGTERM and, once the event loop is at
\* rest, runs again with a new pid; both are running with dirty cleared
C10_ReloadBoth == [][C10_Step]_vars

C10_Witness ==
    /\ BothChanged
    /\ Quiet
    /\ sm = SmIdle
    /\ svc[1].state = "running" /\ svc[1].pid = test.oldpid[1] /\ svc[1].dirty = 0
    /\ svc[2].state = "running" /\ svc[2].pid # test.oldpid[2] /\ svc[2].dirty = 0

\* the transitions of the state table, each under its guard
TableAsStated(t) ==
    \/ t.from = "halted"   /\ t.to = "ready"    /\ t.enabled
    \/ t.from = "ready"    /\ t.to = "running"  /\ t.cond = "on" /\ ~t.teardown
    \/ t.from = "ready"    /\ t.to = "halted"   /\ ~t.enabled
    \/ t.from = "running"  /\ t.to = "stopping" /\ (~t.enabled \/ t.cond = "off")
    \/ t.from = "running"  /\ t.to = "waiting"  /\ t.cond = "flux"
    \/ t.from = "waiting"  /\ t.to = "running"  /\ t.cond = "on"
    \/ t.from = "waiting"  /\ t.to = "stopping" /\ (~t.enabled \/ t.cond = "off")
    \/ t.from = "stopping" /\ t.to = "halted"   /\ t.pid = 0 /\ t.type \in {"service", "inetd"}
    \/ t.from = "stopping" /\ t.to = "done"     /\ t.pid = 0
                                               /\ t.type \in {"task", "run", "inetd_conn"}
    \/ t.from = "done"     /\ t.to = "halted"   /\ t.changed
    \/ t.from = "running"  /\ t.to = "halted"   /\ t.pid = 0 /\ t.type = "service"
                                               /\ t.block = "restarting"

\* C11 as stated: the state of every service is one of the six states, and
\* every state change a handler makes is a transition of the table under
\* its guard
C11_TableAsStated ==
    /\ \A s \in DOMAIN svc : svc[s].state \in SvcStates
    /\ \A i \in DOMAIN tr : tr[i].from # tr[i].to => TableAsStated(tr[i])

\* the transitions the table leaves out
TableMore(t) ==
    \/ t.from = "ready"    /\ t.to = "stopping" /\ t.type = "run" /\ t.pid = 0
                                               /\ t.cond = "on" /\ ~t.teardown
    \/ t.from = "stopping" /\ t.to = "running"  /\ t.type = "run" /\ t.pid = 0
                                               /\ t.cond = "on" /\ ~t.teardown
    \/ t.from = "running"  /\ t.to = "stopping" /\ t.pid = 0
                                               /\ t.type \in {"task", "run", "inetd_conn"}
    \/ t.from = "running"  /\ t.to = "stopping" /\ t.changed /\ t.cond = "on"
                                               /\ ~t.sighup /\ t.type # "inetd"
    \/ t.from = "waiting"  /\ t.to = "ready"    /\ t.pid = 0
    \/ t.from = "done"     /\ t.to = "halted"   /\ t.type \in {"task", "run"}

\* C11: the state of every service is one of the six states, and every
\* state change is a transition of the table under its guard or one of: a
\* run command passing ready -> stopping -> running while service_start
\* waits for it, running -> stopping of a collected task, run or inetd
\* connection, running -> stopping of a changed service that is not
\* reloaded by SIGHUP, waiting -> ready of a service whose process is gone,
\* done -> halted of a run/task at a runlevel change
C11_Table ==
    /\ \A s \in DOMAIN svc : svc[s].state \in SvcStates
    /\ \A i \in DOMAIN tr :
          tr[i].from # tr[i].to => TableAsStated(tr[i]) \/ TableMore(tr[i])

\* a run command was started, waited for and done within one handler
C11_Witness ==
    /\ \E i \in DOMAIN tr : TableAsStated(tr[i]) /\ tr[i].to = "done"
    /\ \E i \in DOMAIN tr : ~TableAsStated(tr[i]) /\ tr[i].from = "ready"

C12_Step(s) ==
    /\ (svc[s].block # "missing" /\ svc'[s].block = "missing")
           => /\ Happened(ev', s, {"start"})
              /\ ~Happened(ev', s, {"fork"})
              /\ svc'[s].pid = svc[s].pid
              /\ svc'[s].restart_cnt = svc[s].restart_cnt
    /\ (svc'[s].block = "missing" /\ ~work') => svc'[s].state = "halted"

\* C12: the step in which service_start finds the binary missing marks the
\* service missing, forks no process and leaves restart_cnt as it was; once
\* the scheduled sweep has run the service is halted
C12_MissingNotCounted == [][\A s \in DOMAIN svc \cap DOMAIN svc' : C12_Step(s)]_vars

\* fork() failed in a service_start of s in the events e
ForkFailed(e, s) == \E i \in DOMAIN e : e[i] = <<s, "fork", -1>>

C13_Step(s) ==
    ForkFailed(ev', s)
        => /\ svc'[s].state # "running"
           /\ svc'[s].restart_cnt > svc[s].restart_cnt
           /\ svc'[s].timer_cb = "retry" /\ svc'[s].timer_on

\* C13: a step in which fork() fails in service_start leaves the service
\* out of running, with restart_cnt incremented and the retry timer armed
C13_ForkFailureRetried == [][\A s \in DOMAIN svc \cap DOMAIN svc' : C13_Step(s)]_vars

\* w is the world after service_stop(s) was called in the current state:
\* success, no signal, state and timer of s as they are
StopIsNoop(w, s) ==
    /\ w.ret = 0
    /\ w.ev = <<>>
    /\ w.procs = procs
    /\ w.svc[s].state = svc[s].state
    /\ w.svc[s].timer_cb = svc[s].timer_cb
    /\ w.svc[s].timer_on = svc[s].timer_on

\* C14: in every reachable state, service_stop on a service whose pid is
\* <= 1 returns 0, sends no signal and changes neither the state nor the
\* timer of the service
C14_StopNoop ==
    \A s \in DOMAIN svc : svc[s].pid <= 1 => StopIsNoop(service_stop(World, s), s)

RunTask(r) == r.type \in {"task", "run"}

\* in this step a run command of s was waited for and exited with 0, or the
\* process of the task s was collected
CompletedOk(s) ==
    IF svc[s].type = "run"
    THEN Happened(ev', s, {"complete"})
         /\ \A i \in DOMAIN ev' : (ev'[i][1] = s /\ ev'[i][2] = "complete") => ev'[i][3] = 0
    ELSE svc[s].pid \in DOMAIN procs /\ svc[s].pid \notin DOMAIN procs'

C15_Step(s) ==
    /\ (RunTask(svc[s]) /\ svc'[s].once > svc[s].once) => CompletedOk(s)
    /\ (RunTask(svc[s]) /\ runlevel' # runlevel /\ svc'[s].once # 0)
           => Happened(ev', s, {"start"}) /\ CompletedOk(s)

\* C15: the once counter of a run/task grows only in a step in which an
\* execution of it completed successfully, and after a step that changes
\* the runlevel it is 0 unless the run/task completed successfully in the
\* new runlevel within that step
C15_OnceOnSuccess == [][\A s \in DOMAIN svc \cap DOMAIN svc' : C15_Step(s)]_vars

\* every run/task of the current runlevel but service 1 has run
OthersHaveRun ==
    \A s \in DOMAIN svc \ {1} :
        (RunTask(svc[s]) /\ EnabledIn(svc[s], runlevel)) => svc[s].once # 0

\* C16: a run command enabled in the current runlevel whose condition is
\* off is not started, and service_completed reports completion once every
\* other run/task of the runlevel has run
C16_OffRunSkipped ==
    (EnabledIn(svc[1], runlevel) /\ cond[1] = "off")
        => /\ svc[1].state \in {"halted", "ready"} /\ svc[1].once = 0
           /\ OthersHaveRun => service_completed(World) = 1

\* where the events e record a call of the svc-reconf hook
HookAt(e) == {i \in DOMAIN e : e[i][2] = "hook_svc_reconf"}

\* event i of e comes after a teardown_begin that comes after event k
LaterTeardown(e, k, i) == \E j \in (k + 1)..(i - 1) : e[j][2] = "teardown_begin"

C17_Step ==
    /\ \A k \in DOMAIN ev' :
          ev'[k][2] = "teardown_end"
              => InTeardownAt(ev', k) /\ (k + 1) \in HookAt(ev')
    /\ (sm.in_teardown /\ ~sm'.in_teardown) => HookAt(ev') # {}
    /\ \A k \in HookAt(ev') :
          /\ k > 1 /\ ev'[k - 1][2] = "teardown_end"
          /\ \A i \in DOMAIN ev' :
                /\ (i < k /\ ev'[i][2] \in {"start", "fork", "restart", "SIGHUP"})
                       => ~InTeardownAt(ev', i)
                /\ (i < k /\ ev'[i][2] \in {"SIGTERM", "SIGKILL"})
                       => ev'[i][3] \notin DOMAIN procs'
                /\ (i > k /\ ev'[i][2] \in {"SIGTERM", "SIGKILL"})
                       => LaterTeardown(ev', k, i)
          /\ \A p \in DOMAIN procs' :
                (procs'[p].term \/ procs'[p].kill)
                    => \E i \in (k + 1)..Len(ev') :
                          /\ ev'[i][3] = p /\ ev'[i][2] \in {"SIGTERM", "SIGKILL"}
                          /\ LaterTeardown(ev', k, i)

\* C17: the svc-reconf hook is called once for each teardown of a reload,
\* right after the teardown has ended; at that point every process that
\* was sent SIGTERM or SIGKILL before has been collected, and no start and
\* no SIGHUP has happened since that teardown began
C17_HookOnce == [][C17_Step]_vars

\* the changed daemon without sighup was collected: the hook ran and the
\* daemon was started after it
C17_Witness ==
    /\ HookAt(ev) # {}
    /\ \E i \in DOMAIN tr : tr[i].s = 2 /\ tr[i].from = "stopping" /\ tr[i].teardown
    /\ Happened(ev, 2, {"fork"})
    /\ ~sm.in_teardown

\* where the events e record a call of the runlevel-change hook
LevelHookAt(e) == {i \in DOMAIN e : e[i][2] = "hook_runlevel_change"}

\* the test's switch from runlevel 2 to runlevel 4 is this step
Switch24 == test'.n = test.n + 1 /\ runlevel = 2 /\ runlevel' = 4

\* services: 1 is A in [2345], 2 is B in [23], 3 is C in [45], 4 the task
C18_Step ==
    /\ Switch24
           => /\ SentTo(ev', 2, svc[2].pid, {"SIGTERM"}) /\ svc'[2].state = "stopping"
              /\ svc'[1].state = "running" /\ svc'[1].pid = svc[1].pid
              /\ \A i \in DOMAIN ev' : ev'[i][1] # 1
              /\ svc'[3].state # "running" /\ ~Happened(ev', 3, {"start"})
              /\ \A s \in DOMAIN svc' : RunTask(svc'[s]) => svc'[s].once = 0
    /\ \A i \in DOMAIN ev' :
          ev'[i][2] \in {"start", "fork"} => ~InTeardownAt(ev', i)
    /\ \A k \in LevelHookAt(ev') :
          /\ k > 1 /\ ev'[k - 1][2] = "teardown_end" /\ InTeardownAt(ev', k - 1)
          /\ \A p \in DOMAIN procs' : ~procs'[p].term /\ ~procs'[p].kill
          /\ \A s \in DOMAIN svc' :
                runlevel' \notin svc'[s].runlevels
                    => svc'[s].state \in {"halted", "done"} /\ svc'[s].pid = 0
          /\ \A i \in DOMAIN ev' : ev'[i][2] \in {"start", "fork"} => i > k
    /\ (sm.in_teardown /\ ~sm'.in_teardown) => LevelHookAt(ev') # {}
    /\ (test'.n > 0 /\ runlevel' = 4 /\ Quiet' /\ sm' = SmIdle)
           => /\ svc'[1].state = "running" /\ svc'[1].pid = test'.oldpid[1]
              /\ svc'[1].pid \in DOMAIN procs'
              /\ svc'[2].state = "halted" /\ svc'[2].pid = 0 /\ OwnProcs(2)' = {}
              /\ svc'[3].state = "running" /\ svc'[3].pid \in DOMAIN procs'

\* C18: the switch from runlevel 2 to 4 sends SIGTERM to B, leaves A running
\* with its pid and unsignalled, clears once of every run/task and does not
\* start C; the runlevel-change hook is called right after the teardown
\* ends, when every signalled process has been collected and every service
\* not in the new runlevel is halted or done with pid 0, and before any
\* start; once the event loop is at rest in runlevel 4, A runs with the pid
\* it had, B is halted without a process and C runs
C18_SwitchLevels == [][C18_Step]_vars

C18_Witness ==
    /\ test.n = 1 /\ runlevel = 4 /\ Quiet /\ sm = SmIdle
    /\ svc[1].state = "running" /\ svc[1].pid = test.oldpid[1]
    /\ svc[2].state = "halted" /\ test.oldpid[2] \notin DOMAIN procs
    /\ svc[3].state = "running" /\ svc[3].pid \in DOMAIN procs

\* the calls of service_register that the events e record
Calls(e) == {i \in DOMAIN e : e[i][2] = "register"}

\* the configuration registered in this step has two lines with one (cmd, id)
Duplicate ==
    /\ test'.n = test.n + 1
    /\ \E i, j \in Calls(ev') : i # j /\ ev'[i][3].line.id = ev'[j][3].line.id

C19_Step ==
    Duplicate => /\ \E i \in Calls(ev') : ev'[i][3].ret # 0
                 /\ svc' = svc

\* C19: when a configuration with two definitions of one (cmd, id) is
\* registered, a call of service_register returns an error and the registry
\* is left as it was
C19_DuplicateRejected == [][C19_Step]_vars

\* service_register gets to its svc_find for a line that names s
NamedBy(e, s) ==
    {i \in Calls(e) : e[i][3].line.id = s /\ ~(runlevel > 0 /\ e[i][3].line.levels \ {0} = {})}

\* what the claim says registration leaves alone
Kept(s) ==
    /\ s \in DOMAIN svc'
    /\ svc'[s].pid = svc[s].pid
    /\ svc'[s].state = svc[s].state
    /\ svc'[s].restart_cnt = svc[s].restart_cnt
    /\ svc'[s].once = svc[s].once
    /\ svc'[s].timer_on = svc[s].timer_on
    /\ svc'[s].timer_cb = svc[s].timer_cb
    /\ svc'[s].timeout = svc[s].timeout

Fresh(s) ==
    /\ svc'[s].state = "halted" /\ svc'[s].pid = 0
    /\ svc'[s].restart_cnt = 0 /\ svc'[s].once = 0 /\ ~svc'[s].timer_on

Created(s) == \E i \in DOMAIN ev' : ev'[i][2] = "svc_new" /\ ev'[i][1] = s

\* the record of s is an inetd service and a line of another type names it
Replaced(s) ==
    /\ s \in DOMAIN svc /\ svc[s].type = "inetd"
    /\ \E i \in NamedBy(ev', s) : ev'[i][3].line.type # "inetd"

C20_StepAsStated ==
    test'.n = test.n + 1
        => \A s \in RegIds :
              /\ s \in DOMAIN svc => Kept(s) /\ ~Created(s)
              /\ s \notin DOMAIN svc /\ s \in DOMAIN svc' => Fresh(s)

C20_Step ==
    test'.n = test.n + 1
        => \A s \in RegIds :
              /\ (s \in DOMAIN svc /\ ~Replaced(s))
                     => Kept(s) /\ ~Created(s) /\ svc'[s].type = svc[s].type
              /\ Replaced(s) => Created(s) /\ Fresh(s) /\ svc'[s].type # "inetd"
              /\ s \notin DOMAIN svc
                     => /\ s \in DOMAIN svc' <=> NamedBy(ev', s) # {}
                        /\ s \in DOMAIN svc' <=> Created(s)
                        /\ s \in DOMAIN svc' => Fresh(s)

Signals == {"SIGHUP", "SIGTERM", "SIGKILL", "SIGSTOP", "SIGCONT"}

\* the configuration that was reloaded before is reloaded again, unchanged,
\* and nothing waits to be done for an earlier event
ReloadedAgain ==
    /\ test.n >= 1 /\ test'.n = test.n + 1
    /\ ev'[1] = <<0, "reload", SameMap>>
    /\ ~work

C21_Step ==
    ReloadedAgain
        => /\ DOMAIN svc' = DOMAIN svc
           /\ \A s \in DOMAIN svc :
                 /\ svc'[s].state = svc[s].state /\ svc'[s].pid = svc[s].pid
                 /\ svc'[s].dirty = 0
           /\ procs' = procs
           /\ \A i \in DOMAIN ev' : ev'[i][2] \notin Signals \cup {"start", "fork", "restart"}
           /\ tr' = <<>>

\* C21: when a configuration that was reloaded is reloaded again without a
\* change, the second reload changes the state and the pid of no service,
\* starts, stops and signals no process, and leaves no service marked dirty
C21_ReloadAgainNoop == [][C21_Step]_vars

\* a second reload, of the same configuration, found the daemon running that
\* had been restarted before
C21_Witness ==
    /\ test.n = MaxAgain /\ ev # <<>> /\ ev[1] = <<0, "reload", [s \in DOMAIN svc |-> "same"]>>
    /\ 1 \in DOMAIN svc /\ svc[1].state = "running" /\ svc[1].pid \in DOMAIN procs
    /\ svc[1].restart_cnt > 0
    /\ \E i \in DOMAIN ev : ev[i][2] = "hook_svc_reconf"
    /\ sm = SmIdle /\ ~work

\* the rule of the condition aggregate over the set V of values
AggregateOf(V) == IF "off" \in V THEN "off" ELSE IF "flux" \in V THEN "flux" ELSE "on"

ValuesOf(dir, conds) == {cond_get(dir, conds[i]) : i \in DOMAIN conds}

\* the last command was initctl cond show
Shown == ev # <<>> /\ ev[1][2] = "cond_show"

SignsOf(marks) == {marks[i][1] : i \in DOMAIN marks}

Twice(first, op) == test'.cls = <<first, op>> /\ ev' # <<>> /\ ev'[1][2] = op

C23_Step ==
    /\ Twice("COND_SET", "COND_SET") => ev'[1][3].exit = 0 /\ conddir' = conddir
    /\ Twice("COND_CLR", "COND_CLR") => ev'[1][3].exit = 0 /\ conddir' = conddir
    /\ Twice("COND_SET", "COND_GET")
           => ev'[1][3].exit = 0 /\ ev'[1][3].out \in {"on", ""} /\ conddir' = conddir
    /\ Twice("COND_CLR", "COND_GET")
           => ev'[1][3].exit = 1 /\ ev'[1][3].out \in {"off", ""} /\ conddir' = conddir

\* C23: initctl cond set of a condition that the command before has set
\* succeeds and leaves the condition files as they are, and so does cond
\* clear after cond clear; cond get reports on (returns 0) after a set and
\* off (returns 1) after a clear
C23_SetClearTwice == [][C23_Step]_vars

\* the user's condition a was set twice and is there
C23_Witness ==
    /\ test.cls = <<"COND_SET", "COND_SET">>
    /\ ev # <<>> /\ ev[1][2] = "COND_SET" /\ ev[1][3].exit = 0
    /\ SkipUsr(ev[1][1]) = <<"a">>
    /\ <<"usr/", "a">> \in DOMAIN conddir

\* the file of condition p is created, removed or changed in this step
Touched(p) ==
    \/ (p \in DOMAIN conddir) # (p \in DOMAIN conddir')
    \/ p \in DOMAIN conddir /\ p \in DOMAIN conddir' /\ conddir'[p] # conddir[p]

\* a name, the argument without a leading usr/, that is empty or has a
\* slash or a period
Invalid(name) == name = <<>> \/ strchr(name, "/") \/ strchr(name, ".")

C26_Step ==
    (ev' # <<>> /\ ev'[1][2] \in condop_t)
        => /\ (ev'[1][2] # "COND_GET" /\ Invalid(SkipUsr(ev'[1][1])))
                 => ev'[1][3].exit # 0 /\ conddir' = conddir
           /\ \A p \in DOMAIN conddir \cup DOMAIN conddir' :
                 Touched(p) => /\ ev'[1][2] # "COND_GET"
                               /\ p = COND_USR \o SkipUsr(ev'[1][1])
                               /\ Len(p) > 1 /\ \A k \in 2..Len(p) : ~PieceHas(p[k], "/")

\* C26: initctl cond set and cond clear with a name (the argument, a leading
\* usr/ left aside) that is empty or has a slash or a period end with an
\* error and change no condition file; whatever the argument, the only file
\* a command creates or removes is usr/<name>, right below usr/, and cond
\* get changes none
C26_UsrOnly == [][C26_Step]_vars

\* finit's own condition pid/a is there after an attempt to clear it
C26_Witness ==
    /\ ev # <<>> /\ ev[1][2] = "COND_CLR" /\ ev[1][1] = <<"pid/a">>
    /\ ev[1][3].exit = 2
    /\ <<"pid/a">> \in DOMAIN conddir

\* the order in which the condition teardown takes a daemon through its states
TeardownOrder ==
    {<<"running", "stopping">>, <<"stopping", "halted">>, <<"halted", "ready">>,
     <<"ready", "running">>}

\* nothing is left to happen: no sweep is scheduled, no timer is armed and
\* no signalled process is still to be collected
Settled == Quiet /\ \A p \in DOMAIN procs : ~procs[p].term /\ ~procs[p].kill

\* both conditions were cleared, swept, and set again
SetAgain == test.n = 3 /\ \A s \in DOMAIN svc : cond[s] = "on"

C24_Step ==
    test.n >= 1
        => /\ \A i \in DOMAIN tr' : <<tr'[i].from, tr'[i].to>> \in TeardownOrder
           /\ \A i \in DOMAIN tr' \ {1} :
                 tr'[i].s = tr'[i - 1].s => tr'[i].from = tr'[i - 1].to
           /\ (SetAgain /\ Settled)' =>
                 \A s \in DOMAIN svc' :
                    /\ svc'[s].state = "running"
                    /\ svc'[s].pid \in DOMAIN procs'
                    /\ svc'[s].pid # test'.oldpid[s]
                    /\ procs'[svc'[s].pid].owner = s
                    /\ Cardinality(DOMAIN procs') = 2

\* C24: two running daemons, X behind net/eth0/up and Y behind
\* net/eth0/running: once both conditions were cleared and later set again,
\* every state change of X and of Y is one of running -> stopping ->
\* halted -> ready -> running, taken in that order, and when nothing is left
\* to happen both run again, each with a new process
C24_CondTeardown == [][C24_Step]_vars

\* both daemons run again with new processes after the clear and the two sets
C24_Witness ==
    /\ SetAgain
    /\ Settled
    /\ \A s \in DOMAIN svc : svc[s].state = "running" /\ svc[s].pid # test.oldpid[s]

\* this step is one run of initctl
Ran == test'.n = test.n + 1 /\ ev' # <<>> /\ ev'[1][2] = "initctl"

\* the requests of that run that ask finit to act, the queries left aside
Requests ==
    {i \in DOMAIN ev' : ev'[i][2] \in {"INIT_CMD_START_SVC", "INIT_CMD_STOP_SVC",
                                       "INIT_CMD_RESTART_SVC", "INIT_CMD_RELOAD_SVC",
                                       "INIT_CMD_RELOAD", "INIT_CMD_SIGNAL"}}

Queries == {i \in DOMAIN ev' : ev'[i][2] = "INIT_CMD_SVC_QUERY"}

ExitCode == ev'[Len(ev')][3]

\* a name that no registered service goes by
Unknown(name) == name # "" /\ \A s \in DOMAIN svc : SvcName[s] # name

\* neither the name of a signal nor a number in 1..31
BadSignal(a) ==
    /\ a.word \notin {"HUP", "SIGHUP", "KILL", "SIGKILL", "TERM", "SIGTERM"}
    /\ ~(a.word = "#" /\ a.num \in 1..31)

NothingDone == Requests = {} /\ svc' = svc /\ procs' = procs /\ tr' = <<>>

C25_Step ==
    Ran =>
        /\ \A i \in Requests :
              ev'[i][1] # "" =>
                  /\ ~Unknown(ev'[i][1])
                  /\ \E j \in Queries : j < i /\ ev'[j][1] = ev'[i][1]
        /\ (/\ ev'[1][1] # <<>>
            /\ Unknown(ev'[1][1][1])
            /\ ev'[1][3].cmd = "signal" => Len(ev'[1][1]) = 2)
               => ExitCode = 69 /\ NothingDone
        /\ (ev'[1][3].cmd = "signal" /\ Len(ev'[1][1]) # 2)
               => ExitCode = 2 /\ NothingDone /\ Queries = {}
        /\ (/\ ev'[1][3].cmd = "signal" /\ Len(ev'[1][1]) = 2
            /\ ev'[1][1][1] # "" /\ ~Unknown(ev'[1][1][1])
            /\ ev'[1][3].io[1] = "ok"
            /\ BadSignal(ev'[1][1][2]))
               => ExitCode = 65 /\ NothingDone

Armings(s) ==
    {i \in DOMAIN ev' : ev'[i][1] = s /\ ev'[i][2] \in {"timer_init", "timer_reinit", "timer_busy"}}

Last(S) == CHOOSE x \in S : \A y \in S : y <= x

\* service_set_state entered stopping for s in this handler
Stopped(s) == \E i \in DOMAIN tr' : tr'[i].s = s /\ tr'[i].to = "stopping" /\ tr'[i].type # "inetd"

\* the statement as the specification has it: the timer that was asked for
\* last is the one that is pending
C27_StepAsStated ==
    \A s \in DOMAIN svc \cap DOMAIN svc' :
        (Armings(s) # {} /\ svc'[s].timer_on) => svc'[s].timeout = ev'[Last(Armings(s))][3]

C27_Step ==
    \A s \in DOMAIN svc \cap DOMAIN svc' :
        /\ \A i \in Armings(s) : ev'[i][2] # "timer_reinit"
        /\ (Armings(s) # {} /\ \A i \in Armings(s) : ev'[i][2] = "timer_busy")
               => /\ svc[s].timer_on
                  /\ svc'[s].timer_on
                  /\ svc'[s].timer_cb = svc[s].timer_cb
                  /\ svc'[s].timeout = svc[s].timeout
        /\ Stopped(s) => <<s, "timer_init", SVC_TERM_TIMEOUT>> \in {ev'[i] : i \in Armings(s)}
        /\ (Stopped(s) /\ svc'[s].state = "stopping")
               => svc'[s].timer_on /\ svc'[s].timer_cb = "kill"

Restarting(r) == r.state = "halted" /\ r.block = "restarting"

\* the statement as the specification has it: the service leaves the
\* condition with restart_cnt at 0
C28_StepAsStated ==
    \A s \in DOMAIN svc \cap DOMAIN svc' :
        (Restarting(svc[s]) /\ ~Restarting(svc'[s])) => svc'[s].restart_cnt = 0

C28_ResetAsStated == [][C28_StepAsStated]_vars

C28_Step ==
    \A s \in DOMAIN svc \cap DOMAIN svc' :
        /\ (Restarting(svc[s]) /\ ~Restarting(svc'[s]))
               => /\ svc[s].timer_on /\ svc[s].timer_cb = "retry"
                  /\ \/ /\ svc[s].restart_cnt < RESPAWN_MAX
                        /\ svc'[s].restart_cnt > svc[s].restart_cnt
                        /\ svc'[s].block # "crashing"
                     \/ /\ svc[s].restart_cnt >= RESPAWN_MAX
                        /\ svc'[s].restart_cnt = 0
                        /\ svc'[s].block = "crashing"
        /\ svc'[s].restart_cnt < svc[s].restart_cnt
               => /\ svc'[s].restart_cnt = 0
                  /\ svc[s].timer_on /\ svc[s].timer_cb = "retry"
                  /\ ~svc'[s].timer_on
                  /\ ~Restarting(svc[s]) \/ svc[s].restart_cnt >= RESPAWN_MAX

\* C28: restart_cnt is reset to 0 by the retry timer and by nothing else:
\* when the timer finds the service no longer halted with the restarting
\* block, or finds restart_cnt at RESPAWN_MAX and marks the service crashing.
\* A service leaves halted-with-restarting only through that timer, which
\* starts it again with restart_cnt incremented, not reset
C28_ResetByRetry == [][C28_Step]_vars

\* the daemon runs again after a crash, its restart_cnt counts the retry and
\* the next retry is pending
C28_Witness ==
    \E s \in DOMAIN svc :
        /\ svc[s].state = "running" /\ svc[s].pid > 1
        /\ svc[s].restart_cnt > 0
        /\ svc[s].timer_on /\ svc[s].timer_cb = "retry"

\* the forced-kill timer of s fires in this step: service_timeout_cb calls
\* service_kill
KillFired(s) ==
    /\ s \in DOMAIN svc /\ s \in DOMAIN svc'
    /\ svc[s].timer_on /\ svc[s].timer_cb = "kill"
    /\ DOMAIN procs' = DOMAIN procs
    /\ vars' # vars

\* the record of s but for its timer slot
NoSlot(r) == [r EXCEPT !.timer_on = FALSE, !.timer_cb = "none", !.timeout = 0]

C29_Step ==
    /\ \A i \in DOMAIN ev' : ev'[i][2] = "SIGKILL" => ev'[i][3] > 1
    /\ \A s \in DOMAIN svc :
          KillFired(s) =>
              /\ svc'[s] = NoSlot(svc[s])
              /\ tr' = <<>>
              /\ svc[s].pid <= 1 => ev' = <<>> /\ procs' = procs
              /\ svc[s].pid > 1 =>
                    /\ ev' = << <<s, "SIGKILL", svc[s].pid>> >>
                    /\ \A p \in DOMAIN procs :
                          procs'[p] = IF p = svc[s].pid
                                      THEN [procs[p] EXCEPT !.kill = TRUE] ELSE procs[p]

\* C29: service_kill sends SIGKILL only to a pid > 1.  When the forced-kill
\* timer fires for a service whose pid is <= 1 no signal is sent, no process
\* is touched and the service keeps its state, pid and marks: only its timer
\* slot is emptied; with a pid > 1 that one process is sent SIGKILL
C29_KillGuard == [][C29_Step]_vars

\* the timer has fired for a record with pid 0 while other processes live:
\* nothing was sent and they live on, unsignalled
C29_Witness ==
    /\ 1 \in DOMAIN svc
    /\ svc[1].pid = 0 /\ svc[1].state = "stopping"
    /\ svc[1].timer_cb = "none" /\ ~svc[1].timer_on
    /\ ev = <<>>
    /\ DOMAIN procs # {} /\ \A p \in DOMAIN procs : ~procs[p].kill

\* service_completed was called in the state at hand, the handler before
AskedCompleted == ev # <<>> /\ ev[1][2] = "service_completed"

\* the condition list of r has the name of the svc-up or of the system-up hook
NamesHook(r) == \E i \in DOMAIN r.cond : r.cond[i] \in {"hook/svc/up", "hook/sys/up"}

\* the run commands and tasks service_completed waits for
Awaited ==
    {s \in DOMAIN svc :
        /\ svc[s].type \in {"run", "task"}
        /\ EnabledIn(svc[s], runlevel)
        /\ ~NamesHook(svc[s])}

\* C30: service_completed returns true exactly when every run command and
\* task that is enabled in the active runlevel, other than those whose
\* condition list has the name of the svc-up or system-up hook in it, has
\* once != 0, and false when one of them has once = 0
C30_CompletedExactly ==
    AskedCompleted =>
        /\ ev[1][3] \in {0, 1}
        /\ ev[1][3] = 1 <=> \A s \in Awaited : svc[s].once # 0
        /\ ev[1][3] = 0 <=> \E s \in Awaited : svc[s].once = 0

\* completion is reported while a run command that waits for a hook has not
\* run, the other one has
C30_Witness ==
    /\ AskedCompleted /\ ev[1][3] = 1
    /\ \E s \in DOMAIN svc :
          /\ svc[s].type \in {"run", "task"} /\ EnabledIn(svc[s], runlevel)
          /\ NamesHook(svc[s]) /\ svc[s].once = 0
    /\ \E s \in Awaited : svc[s].once # 0

\* the connection records the handler of this step has deleted
Unregistered == {s \in DOMAIN svc \ DOMAIN svc' : svc[s].type = "inetd_conn"}

\* the state changes of service s in this handler, by their place in tr'
ChangesOf(s) == {i \in DOMAIN tr' : tr'[i].s = s}

C31_Step ==
    ~diverged' =>
        /\ \A s \in DOMAIN svc' : svc'[s].type = "inetd_conn" => svc'[s].state # "done"
        /\ \A i \in DOMAIN tr' :
              (tr'[i].type = "inetd_conn" /\ tr'[i].to = "done")
                  => /\ tr'[i].s \notin DOMAIN svc'
                     /\ \A j \in ChangesOf(tr'[i].s) : j <= i
        /\ \A i \in DOMAIN ev' : ev'[i][1] \in DOMAIN svc \cup DOMAIN svc' \cup {0}
        /\ \A i \in DOMAIN tr' : tr'[i].s \in DOMAIN svc \cup DOMAIN svc'
        /\ \A i \in DOMAIN ev' :
              ev'[i][2] = "service_step" => (ev'[i][3] # 0 <=> ev'[i][1] \notin DOMAIN svc')
        /\ \A s \in Unregistered :
              (svc[s].parent \in DOMAIN svc /\ svc[svc[s].parent].block = "busy")
                  => /\ svc[s].parent \in DOMAIN svc'
                     /\ svc'[svc[s].parent].block = "none"
                     /\ (/\ svc[svc[s].parent].state = "halted"
                         /\ runlevel \in svc[svc[s].parent].runlevels)
                            => \E i \in ChangesOf(svc[s].parent) :
                                  tr'[i].from = "halted" /\ tr'[i].to = "ready"

\* C31: an inetd-conn record that reaches done is unregistered in the same
\* call of service_step: no handler leaves such a record in done, the change
\* to done is the last thing that happens to it, no later handler names it,
\* service_step returns non-zero exactly when the record is gone, and a
\* parent that was blocked busy is unblocked and stepped
C31_ConnUnregistered == [][C31_Step]_vars

\* the step of a collected connection has returned non-zero: the record is
\* gone and its parent, which was busy, listens again
C31_Witness ==
    /\ \E i \in DOMAIN ev :
          ev[i][2] = "service_step" /\ ev[i][3] # 0 /\ ev[i][1] \notin DOMAIN svc
    /\ 1 \in DOMAIN svc /\ svc[1].block = "none" /\ svc[1].state = "running"
    /\ \E i \in DOMAIN tr : tr[i].s = 1 /\ tr[i].block = "none" /\ tr[i].to = "ready"

\* the handler of this step is service_step, called on service s right after
\* a handler that was service_step on s as well
SteppedAgain(s) ==
    /\ ev # <<>> /\ ev[Len(ev)][1] = s /\ ev[Len(ev)][2] = "service_step"
    /\ ev' # <<>> /\ ev'[Len(ev')][1] = s /\ ev'[Len(ev')][2] = "service_step"

C32_Step ==
    \A s \in DOMAIN svc :
        (SteppedAgain(s) /\ ~diverged')
            => /\ svc' = svc /\ procs' = procs /\ nextpid' = nextpid
               /\ cond' = cond /\ sm' = sm /\ work' = work
               /\ tr' = <<>> /\ Len(ev') = 1

CollectedRunning(s) ==
    \E i \in DOMAIN tr' :
        /\ tr'[i].s = s /\ tr'[i].from = "running" /\ tr'[i].to = "halted"
        /\ tr'[i].block = "restarting" /\ tr'[i].pid = 0

\* the retry timer of s has fired in this handler
RetryFired(s) ==
    /\ s \in DOMAIN svc /\ svc[s].timer_on /\ svc[s].timer_cb = "retry"
    /\ <<s, "service_timeout_cb", "retry">> \in {ev'[i] : i \in DOMAIN ev'}

\* the events of this handler that start something
Starts == {i \in DOMAIN ev' : ev'[i][2] \in {"start", "fork", "restart"}}

C33_Step ==
    \A s \in DOMAIN svc \cap DOMAIN svc' :
        /\ CollectedRunning(s)
              => /\ \E i \in Armings(s) : ev'[i][3] = RETRY_FIRST
                 /\ ~svc[s].timer_on
                       => /\ svc'[s].timer_on /\ svc'[s].timer_cb = "retry"
                          /\ svc'[s].timeout = RETRY_FIRST
        /\ (RetryFired(s) /\ Restarting(svc[s]) /\ svc[s].restart_cnt < RESPAWN_MAX)
              => /\ svc'[s].restart_cnt > svc[s].restart_cnt
                 /\ svc'[s].timer_on /\ svc'[s].timer_cb = "retry"
                 /\ svc'[s].timeout = IF svc'[s].restart_cnt <= 5
                                      THEN RETRY_SHORT ELSE RETRY_LONG
        /\ (RetryFired(s) /\ ~Restarting(svc[s]))
              => /\ Starts = {}
                 /\ procs' = procs
                 /\ tr' = <<>>
                 /\ ~svc'[s].timer_on

\* C33: a daemon collected in running has its first restart asked for with
\* the 1 ms timer; the retry timer armed after respawn attempt n waits 2 s
\* when n <= 5 and 5 s when n > 5; a retry timer that fires while the service
\* is not halted with the restarting block starts nothing
C33_RetryDelays == [][C33_Step]_vars

\* the sixth respawn attempt has been made and the 5 s timer is pending
C33_Witness ==
    \E s \in DOMAIN svc :
        /\ svc[s].restart_cnt > 5
        /\ svc[s].timer_on /\ svc[s].timer_cb = "retry" /\ svc[s].timeout = RETRY_LONG
        /\ \E i \in DOMAIN ev : ev[i][1] = s /\ ev[i][2] = "start"

\* C34: service_unregister leaves no pending restart or SIGKILL timer: when
\* the record is deleted its timer slot is empty, whatever state the service
\* was in
C34_NoTimerLeft ==
    \A i \in DOMAIN ev : ev[i][2] = "svc_del" => ev[i][3] = "none"

\* a valid interface name: not empty, not "." or "..", shorter than IFNAMSIZ,
\* without '/', ':' and whitespace
ValidName(X) ==
    /\ X # <<>> /\ X # <<".">> /\ X # <<".", ".">>
    /\ Len(X) < IFNAMSIZ
    /\ \A i \in DOMAIN X : X[i] \notin {"/", ":", " ", "\t"}

IsOn(dir, name) == name \in DOMAIN dir /\ dir[name] = "on"

\* the claim for a link message m that carries the name X
LinkAsStated(m, X) ==
    /\ (ValidName(X) /\ m.type = "RTM_NEWLINK")
          => /\ IsOn(conddir', NetCond(X, "exist"))
             /\ IsOn(conddir', NetCond(X, "up")) <=> "IFF_UP" \in m.flags
             /\ IsOn(conddir', NetCond(X, "running")) <=> "IFF_RUNNING" \in m.flags
    /\ (ValidName(X) /\ m.type = "RTM_DELLINK")
          => \A c \in {"exist", "up", "running"} : ~IsOn(conddir', NetCond(X, c))
    /\ ValidName(X)
          => \A q \in (DOMAIN conddir \cup DOMAIN conddir')
                        \ ({NetCond(X, c) : c \in {"exist", "up", "running"}}
                           \cup {NET_ROUTE_DEFAULT}) :
                IsOn(conddir', q) <=> IsOn(conddir, q)
    /\ ~ValidName(X) => conddir' = conddir /\ nl_defidx' = nl_defidx

\* the claim for a route message m
RouteAsStated(m) ==
    (m.dst = 0 /\ m.plen = 0 /\ (m.gw # 0 \/ m.idx # 0))
        => /\ m.type = "RTM_NEWROUTE" => IsOn(conddir', NET_ROUTE_DEFAULT)
           /\ m.type = "RTM_DELROUTE" => ~IsOn(conddir', NET_ROUTE_DEFAULT)
           /\ \A q \in (DOMAIN conddir \cup DOMAIN conddir') \ {NET_ROUTE_DEFAULT} :
                 IsOn(conddir', q) <=> IsOn(conddir, q)

C35_Step ==
    (ev' # <<>> /\ ev'[1][2] = "nl_callback" /\ ~ev'[1][1].bad)
        => CASE ev'[1][1].type \in {"RTM_NEWLINK", "RTM_DELLINK"} ->
                    \A i \in DOMAIN ev'[1][1].names :
                        LinkAsStated(ev'[1][1], ev'[1][1].names[i])
             [] ev'[1][1].type \in {"RTM_NEWROUTE", "RTM_DELROUTE"} ->
                    RouteAsStated(ev'[1][1])

\* C35: for every valid interface name X a NEWLINK message leaves net/X/exist
\* on and net/X/up and net/X/running as IFF_UP and IFF_RUNNING are in the
\* message; a DELLINK message leaves all three off; a message with an invalid
\* name changes no condition; a default route that is added sets
\* net/route/default and one that is deleted clears it
C35_NetConds == [][C35_Step]_vars

\* NEWLINK with IFF_UP alone for a name of IFNAMSIZ - 1 characters:
\* net/X/exist and net/X/up are on and net/X/running is off
C35_Witness ==
    /\ ev # <<>> /\ ev[1][2] = "nl_callback" /\ ev[1][1].type = "RTM_NEWLINK"
    /\ ~ev[1][1].bad /\ ev[1][1].flags = {"IFF_UP"} /\ ev[1][1].names = <<Str(IFNAMSIZ - 1)>>
    /\ test.n = MaxNl
    /\ IsOn(conddir, NetCond(Str(IFNAMSIZ - 1), "exist"))
    /\ IsOn(conddir, NetCond(Str(IFNAMSIZ - 1), "up"))
    /\ ~IsOn(conddir, NetCond(Str(IFNAMSIZ - 1), "running"))
    /\ ~IsOn(conddir, NET_ROUTE_DEFAULT) /\ nl_defidx = 0

\* the handler of this step is one call of service_step, on service s
SteppedOnly(s) ==
    /\ s \in DOMAIN svc /\ s \in DOMAIN svc'
    /\ ev' # <<>> /\ ev'[Len(ev')][1] = s /\ ev'[Len(ev')][2] = "service_step"

\* what the handler of this step did to service s: event what, sent to or
\* about a process
Did(s, what) == \E i \in DOMAIN ev' : ev'[i][1] = s /\ ev'[i][2] = what /\ ev'[i][3] > 1

\* s was started from ready and runs
StartedFromReady(s) ==
    /\ Did(s, "fork")
    /\ \E i \in DOMAIN tr' : tr'[i].s = s /\ tr'[i].from = "ready" /\ tr'[i].to = "running"

\* a stop of the running service s was initiated
StopInitiated(s) ==
    \/ Did(s, "SIGTERM")
    \/ svc[s].type = "inetd"

C36_Step ==
    \A s \in DOMAIN svc :
        (SteppedOnly(s) /\ ~diverged')
            => /\ (svc[s].dirty = 1 /\ svc'[s].dirty = 0)
                     => \/ StartedFromReady(s)
                        \/ svc[s].sighup /\ Did(s, "SIGHUP")
                        \/ ~svc[s].sighup /\ StopInitiated(s)
               /\ (/\ svc[s].dirty = 1 /\ svc[s].state = "running" /\ svc[s].sighup
                   /\ svc[s].pid > 1 /\ runlevel \in svc[s].runlevels
                   /\ svc[s].block = "none" /\ cond[s] = "on" /\ sm.in_teardown)
                     => svc'[s].dirty = 1 /\ ~Did(s, "SIGHUP")

\* C36: the dirty flag of a changed service is cleared by service_step only
\* when it has acted on the change: the service was started from ready, or
\* SIGHUP was sent to the running service that takes it, or the stop of the
\* running service that does not was initiated; a running service that takes
\* SIGHUP and is skipped during teardown stays dirty
C36_DirtyCleared == [][C36_Step]_vars

\* C37: every call of service_step terminates: the re-entry loop (goto
\* restart) settles within MaxSteps transitions, for every kind of service,
\* dirty flag, condition aggregate and start outcome
C37_Terminates == ~diverged

\* the live processes that service s has forked
ProcsOf(P, s) == {p \in DOMAIN P : P[p].owner = s}

C38_Step ==
    /\ \A i \in DOMAIN ev' : ev'[i][2] = "start" => ev'[i][3] = 0
    /\ \A s \in DOMAIN svc' : Cardinality(ProcsOf(procs', s)) <= 1
    /\ \A s \in DOMAIN svc :
          (\E i \in DOMAIN ev' : ev'[i][1] = s /\ ev'[i][2] = "fork" /\ ev'[i][3] > 1)
              => ProcsOf(procs, s) \cap ProcsOf(procs', s) \subseteq
                    {ev'[i][3] : i \in {j \in DOMAIN ev' : ev'[j][1] = s /\ ev'[j][2] = "fork"}}

\* C38: service_start is only called for a service whose pid is 0, and no
\* process is forked for a service while an earlier process of it is still
\* uncollected: a service never has two live processes
C38_StartAtPidZero == [][C38_Step]_vars

\* a daemon that crashed and was collected has been started again by the
\* retry timer, with its pid at 0 when service_start was called
C38_Witness ==
    \E s \in DOMAIN svc :
        /\ svc[s].state = "running" /\ svc[s].pid > 1 /\ svc[s].restart_cnt > 0
        /\ ProcsOf(procs, s) = {svc[s].pid}
        /\ \E i \in DOMAIN ev : ev[i] = <<s, "start", 0>>
        /\ \E i \in DOMAIN ev : ev[i] = <<s, "fork", svc[s].pid>>
        /\ svc[s].timer_on /\ svc[s].timer_cb = "retry"

C39_Step ==
    \A i \in DOMAIN ev' :
        ev'[i][2] \in {"SIGSTOP", "SIGCONT", "SIGTERM", "SIGHUP"} => ev'[i][3] > 1

\* C39: every SIGSTOP, SIGCONT, SIGTERM and SIGHUP that the state machine
\* sends goes to a pid above 1: kill() is never called with the pid of a
\* service that is 0, 1 or negative
C39_SignalsToChildren == [][C39_Step]_vars

\* the executions of run command or task s that this handler has seen
\* complete: a run command is waited for by service_start itself, the
\* process of a task is collected by service_monitor
Executions(s) ==
    Cardinality({i \in DOMAIN ev' : ev'[i][1] = s /\ ev'[i][2] = "complete"})
    + (IF /\ svc[s].type = "task" /\ svc[s].pid > 1 /\ svc[s].pid \in DOMAIN procs
          /\ svc'[s].pid # svc[s].pid
       THEN 1 ELSE 0)

C40_Step ==
    \A s \in DOMAIN svc \cap DOMAIN svc' :
        (/\ svc[s].type \in {"run", "task"} /\ ~diverged'
         /\ runlevel' = runlevel /\ svc'[s].once >= svc[s].once)
            => svc'[s].once = svc[s].once + Executions(s)

\* C40: each execution of a run command or task increments its once counter
\* by exactly one, whatever the kind and the exit status: between two
\* runlevel changes once counts the completed executions
C40_OncePerExecution == [][C40_Step]_vars


=============================================================================
